---- MODULE Spec2Model ----
(***************************************************************************)
(* AVRTools I2C master: the transmit queue (BufferI2cTx), the asynchronous *)
(* and synchronous request layer, and the TWI interrupt handler, together  *)
(* with the TWI peripheral the handler drives.                             *)
(*                                                                         *)
(* One caller context issues requests; the TWI interrupt pre-empts it      *)
(* between any two of its steps.  An ISR and an ATOMIC_BLOCK are each one  *)
(* action.                                                                 *)
(*                                                                         *)
(* The module also holds the I2C slave (I2cSlave.cpp), the byte ring       *)
(* buffer (RingBuffer.cpp) and the buffered serial interface built on it   *)
(* (USART3.cpp), each with a specification of its own.                     *)
(***************************************************************************)
EXTENDS Integers, Sequences, FiniteSets, TLC

\* ---------------------------------------------------------------- bounds
\* I2C_MASTER_MAX_TX_MSG_LEN (build option, default 24)
kMaxMsgLen == 2
\* I2C_MASTER_MAX_TX_MSG_NBR (build option, default 3)
kMaxNbrMsgs == 2
\* number of requests the caller issues in one behaviour
MaxTx == 3
\* largest receive length a caller asks for
MaxRxLen == 2
\* bus faults (an address-NACK streak, a data NACK, a bus error, a lost
\* arbitration) the bus inflicts in one behaviour
MaxFaults == 1
\* number of requests the caller issues in one behaviour of the
\* specification with fairness
MaxTxFair == 1

\* ------------------------------------------------------ program constants
kI2cWrite == 1
kI2cRead == 2
kI2cWriteRestartRead == 3
kI2cWriteMask == 1

kI2cCompletedOk == 0
kI2cError == 1
kI2cNotStarted == 2
kI2cInProgress == 4

kI2cNoError == 0
kI2cErrTxBufferFull == 1
kI2cErrMsgTooLong == 2
kI2cErrNullStatusPtr == 3
kI2cErrWriteWithoutData == 4
kI2cErrReadWithoutStorage == 5

\* TWI status codes (TW_STATUS, avr-libc util/twi.h) the handler switches on
TW_BUS_ERROR == 0
TW_START == 8
TW_REP_START == 16
TW_MT_SLA_ACK == 24
TW_MT_SLA_NACK == 32
TW_MT_DATA_ACK == 40
TW_MT_DATA_NACK == 48
TW_MT_ARB_LOST == 56
TW_MR_SLA_ACK == 64
TW_MR_SLA_NACK == 72
TW_MR_DATA_ACK == 80
TW_MR_DATA_NACK == 88
TW_NO_INFO == 248

\* the retry budget of the address-NACK special handling
kSlaNackRetries == 3

U8 == 256
NULL == 0

\* ------------------------------------------------------------ input sets
Tickets == 1..MaxTx
Slots == 0..(kMaxNbrMsgs - 1)
Addresses == {32}
RegAddrs == {160}
DataBytes == {208}
\* the slave answers a read with its registers in order: byte k is
\* SlaveByte(k)
SlaveByte(k) == (90 + k) % U8
\* numberBytes a caller passes to the register+buffer write
WriteLens == {1, kMaxMsgLen, 255}
ReadLens == 0..MaxRxLen
Apis == {"write1", "write4", "read1", "read2"}

VARIABLES
    \* BufferI2cTx
    mTxBuffer, mRxBuffer, mRxCounter, mStatus, mTxBufferSize, mRxBufferSize,
    mTxMode, mAddress, mCurrentByte, mNbrMsgs, mCurrentMsg,
    \* engine globals and the TWI registers
    gI2cBusy, gRetries, TWIE, TWSTO, TWEA, TWDR, TW_STATUS,
    \* the operation the TWI peripheral is carrying out, and how many bytes
    \* the addressed slave has returned in the read under way
    hwOp, slavePos,
    \* build option I2C_MASTER_SLA_NACK_SPECIAL_HANDLING
    slaNackSpecial,
    \* caller memory: status cells, receive counters, receive buffers
    statusCell, rxCntCell, rxMem, nullWrite,
    \* the caller: position, current request, results
    pc, call, nCalls, retVal,
    \* history: the bus trace of the transaction in progress and what that
    \* transaction asked for, fault counters, the requests the engine has
    \* given a final status
    wire, wireTicket, wireReq, wireClean, wireLost, nackCount,
    nackTicket, faults, rxOob, ended,
    \* I2cSlave.cpp: the slave's globals and TWI registers, and the bus it
    \* is on: the slave mode of its TWI peripheral, what the remote master
    \* has done in the transaction under way, what the callback was given
    slave, sbus

bufVars == <<mTxBuffer, mRxBuffer, mRxCounter, mStatus, mTxBufferSize,
             mRxBufferSize, mTxMode, mAddress, mCurrentByte, mNbrMsgs,
             mCurrentMsg>>
twiVars == <<gI2cBusy, gRetries, TWIE, TWSTO, TWEA, TWDR, TW_STATUS, hwOp,
             slavePos>>
memVars == <<statusCell, rxCntCell, rxMem, nullWrite>>
callVars == <<pc, call, nCalls, retVal>>
histVars == <<wire, wireTicket, wireReq, wireClean, wireLost, nackCount,
              nackTicket, faults, rxOob, ended>>
\* the I2C slave (I2cSlave.cpp, a separate program on its own device)
slvVars == <<slave, sbus>>
mstVars == <<bufVars, twiVars, memVars, callVars, histVars, slaNackSpecial>>

VARIABLES
    \* RingBuffer.cpp: a RingBuffer object driven on its own, the elements
    \* it has accepted and not yet given back, and the last call made on it
    ring, fifo, ringOp,
    \* USART3.cpp: the two buffers, the data registers of the transmitter
    \* and of the receiver, the transmit shift register, flags and
    \* interrupt enables of UCSR3A and UCSR3B
    rxBuffer, txBuffer, UDR3tx, UDR3rx, txShift, TXC3, UPE3, RXCIE3, UDRIE3,
    \* the caller of USART3: position, the character being written, and the
    \* number of writes made and of frames received
    upc, uchar, nWrites, nRxd

ringVars == <<ring, fifo, ringOp>>
usartVars == <<rxBuffer, txBuffer, UDR3tx, UDR3rx, txShift, TXC3, UPE3,
               RXCIE3, UDRIE3, upc, uchar, nWrites, nRxd>>
\* the serial side (RingBuffer.cpp, USART3.cpp)
serVars == <<ringVars, usartVars>>

VARIABLES
    \* the debug diary of I2cMaster.cpp (build option DEBUG_I2cMasterDiary):
    \* the three trace arrays, the write index, and whether an entry has
    \* been written outside the arrays
    diary,
    \* a hardware status handed to the error branch of the handler, the
    \* value the branch leaves in the status cell, and what the synchronous
    \* call waiting on that cell returns
    report,
    \* the characters write() has put in the transmit buffer of USART3 and
    \* the frames the transmitter has put on the line, in order
    txWritten, txLine

dbgVars == <<diary, report>>
txHist == <<txWritten, txLine>>
auxVars == <<dbgVars, txHist>>
vars == <<mstVars, slvVars, serVars, auxVars>>

\* value of a caller cell nobody has written yet, and of a status cell the
\* caller has read its result from and given up
Unset == U8 - 1
Retired == U8 - 2

NoReq == [mode |-> 0, address |-> 0, txLen |-> 0, payload |-> <<>>,
          rxLen |-> 0]

NoCall == [api |-> "none", sync |-> FALSE, address |-> 0, reg |-> 0,
           data |-> 0, n |-> 0, dest |-> NULL, cnt |-> NULL, status |-> NULL]

\* --------------------------------------------------------- BufferI2cTx
isFull == mNbrMsgs >= kMaxNbrMsgs

getCurrentTxMode == mTxMode[mCurrentMsg]
getCurrentAddress == mAddress[mCurrentMsg]
getCurrentStatus == mStatus[mCurrentMsg]
getCurrentRxBufferPtr == mRxBuffer[mCurrentMsg]
getCurrentRxBufferSize == mRxBufferSize[mCurrentMsg]
getCurrentRxBufferCtr == mRxCounter[mCurrentMsg]

\* getCurrentByte(): the byte, or -1 at the end; advances mCurrentByte
getCurrentByteVal ==
    IF mCurrentByte < mTxBufferSize[mCurrentMsg]
    THEN mTxBuffer[mCurrentMsg][mCurrentByte + 1]
    ELSE -1
getCurrentByteNext ==
    IF mCurrentByte < mTxBufferSize[mCurrentMsg]
    THEN (mCurrentByte + 1) % U8
    ELSE mCurrentByte

\* doneWithCurrentMessage(): the new occupancy, slot index and return value
DoneNbrMsgs == (mNbrMsgs + U8 - 1) % U8
DoneCurrentMsg ==
    IF DoneNbrMsgs # 0
    THEN IF (mCurrentMsg + 1) % U8 >= kMaxNbrMsgs
         THEN ((mCurrentMsg + 1) % U8) - kMaxNbrMsgs
         ELSE (mCurrentMsg + 1) % U8
    ELSE mCurrentMsg
DoneRetVal == DoneNbrMsgs # 0

doneWithCurrentMessage ==
    /\ mNbrMsgs' = DoneNbrMsgs
    /\ mCurrentMsg' = DoneCurrentMsg
    /\ mCurrentByte' = 0

\* push() with the test for receive storage made only for a plain read
PushErrNoStorageTest(a) ==
    IF mNbrMsgs >= kMaxNbrMsgs THEN kI2cErrTxBufferFull
    ELSE IF a.txLen > kMaxMsgLen THEN kI2cErrMsgTooLong
    ELSE IF a.status = NULL THEN kI2cErrNullStatusPtr
    ELSE IF /\ a.txMode \in {kI2cWrite, kI2cWriteRestartRead}
            /\ (a.txNull \/ a.txLen = 0)
         THEN kI2cErrWriteWithoutData
    ELSE IF /\ a.txMode = kI2cRead
            /\ (a.rxBuf = NULL \/ a.rxLen = 0 \/ a.rxCnt = NULL)
         THEN kI2cErrReadWithoutStorage
    ELSE kI2cNoError

\* push() without the test for a full queue
PushErrNoFullTest(a) ==
    IF a.txLen > kMaxMsgLen THEN kI2cErrMsgTooLong
    ELSE IF a.status = NULL THEN kI2cErrNullStatusPtr
    ELSE IF /\ a.txMode \in {kI2cWrite, kI2cWriteRestartRead}
            /\ (a.txNull \/ a.txLen = 0)
         THEN kI2cErrWriteWithoutData
    ELSE IF /\ a.txMode \in {kI2cRead, kI2cWriteRestartRead}
            /\ (a.rxBuf = NULL \/ a.rxLen = 0 \/ a.rxCnt = NULL)
         THEN kI2cErrReadWithoutStorage
    ELSE kI2cNoError

\* push() with the length held against the whole buffer instead of a slot
PushErrLooseLength(a) ==
    IF mNbrMsgs >= kMaxNbrMsgs THEN kI2cErrTxBufferFull
    ELSE IF a.txLen > kMaxMsgLen * kMaxNbrMsgs THEN kI2cErrMsgTooLong
    ELSE IF a.status = NULL THEN kI2cErrNullStatusPtr
    ELSE IF /\ a.txMode \in {kI2cWrite, kI2cWriteRestartRead}
            /\ (a.txNull \/ a.txLen = 0)
         THEN kI2cErrWriteWithoutData
    ELSE IF /\ a.txMode \in {kI2cRead, kI2cWriteRestartRead}
            /\ (a.rxBuf = NULL \/ a.rxLen = 0 \/ a.rxCnt = NULL)
         THEN kI2cErrReadWithoutStorage
    ELSE kI2cNoError

\* push(): the code it returns for arguments a in the current state
PushErr(a) ==
    IF mNbrMsgs >= kMaxNbrMsgs THEN kI2cErrTxBufferFull
    ELSE IF a.txLen > kMaxMsgLen THEN kI2cErrMsgTooLong
    ELSE IF a.status = NULL THEN kI2cErrNullStatusPtr
    ELSE IF /\ a.txMode \in {kI2cWrite, kI2cWriteRestartRead}
            /\ (a.txNull \/ a.txLen = 0)
         THEN kI2cErrWriteWithoutData
    ELSE IF /\ a.txMode \in {kI2cRead, kI2cWriteRestartRead}
            /\ (a.rxBuf = NULL \/ a.rxLen = 0 \/ a.rxCnt = NULL)
         THEN kI2cErrReadWithoutStorage
    ELSE kI2cNoError

\* a slot choice that leaves one slot out
PushSlotSkip == (mCurrentMsg + mNbrMsgs + 1) % kMaxNbrMsgs

\* a slot choice that ignores the occupancy
PushSlotCurrent == mCurrentMsg

\* push(): the slot a new request goes into
PushSlot == (mCurrentMsg + mNbrMsgs) % kMaxNbrMsgs

\* push(): its effect on the queue and on the caller's cells
push(a) ==
    IF PushErr(a) # kI2cNoError
    THEN UNCHANGED <<bufVars, memVars>>
    ELSE LET slot == PushSlot
             copy == ~a.txNull /\ a.txLen # 0
             rxOk == a.rxLen # 0 /\ a.rxBuf # NULL /\ a.rxCnt # NULL
         IN  /\ mAddress' = [mAddress EXCEPT ![slot] = a.address]
             /\ mTxMode' = [mTxMode EXCEPT ![slot] = a.txMode]
             /\ mTxBufferSize' = [mTxBufferSize EXCEPT
                                    ![slot] = IF copy THEN a.txLen ELSE 0]
             /\ mTxBuffer' = [mTxBuffer EXCEPT ![slot] =
                                [i \in 1..kMaxMsgLen |->
                                   IF copy /\ i <= a.txLen
                                   THEN a.txByte[i] ELSE @[i]]]
             /\ mRxBuffer' = [mRxBuffer EXCEPT ![slot] = a.rxBuf]
             /\ mRxBufferSize' = [mRxBufferSize EXCEPT
                                    ![slot] = IF rxOk THEN a.rxLen ELSE 0]
             /\ IF a.rxCnt # NULL
                THEN /\ rxCntCell' = [rxCntCell EXCEPT ![a.rxCnt] = 0]
                     /\ UNCHANGED nullWrite
                ELSE /\ nullWrite' = TRUE
                     /\ UNCHANGED rxCntCell
             /\ mRxCounter' = [mRxCounter EXCEPT ![slot] = a.rxCnt]
             /\ mStatus' = [mStatus EXCEPT ![slot] = a.status]
             /\ statusCell' = [statusCell EXCEPT
                                 ![a.status] = kI2cNotStarted]
             /\ mNbrMsgs' = (mNbrMsgs + 1) % U8
             /\ UNCHANGED <<rxMem, mCurrentByte, mCurrentMsg>>

\* ------------------------------------------------------ the TWI peripheral
\* What the peripheral does when TWINT is cleared with neither TWSTA nor
\* TWSTO set, after it reported status st
HwContinue(st) ==
    IF st \in {TW_START, TW_REP_START} THEN "sla"
    ELSE IF st \in {TW_MT_SLA_ACK, TW_MT_DATA_ACK} THEN "mtdata"
    ELSE IF st \in {TW_MR_SLA_ACK, TW_MR_DATA_ACK} THEN "mrdata"
    ELSE "none"

\* A write of TWCR with TWEN and TWINT set and the given TWIE, TWEA, TWSTA,
\* TWSTO bits, made after status st (st = -1: from the caller, bus idle)
WriteTWCR(ie, ea, sta, sto, st) ==
    /\ TWIE' = ie
    /\ TWEA' = ea
    /\ TWSTO' = sto
    /\ hwOp' = IF sta /\ sto THEN "stopstart"
               ELSE IF sta
                    THEN IF st \in {-1, TW_MT_ARB_LOST}
                         THEN "start" ELSE "restart"
               ELSE IF sto THEN "stop"
               ELSE HwContinue(st)

sendNextByte(st) == WriteTWCR(TRUE, TRUE, FALSE, FALSE, st)
sendStop(st) == WriteTWCR(FALSE, FALSE, FALSE, TRUE, st)
sendStart(st) == WriteTWCR(TRUE, FALSE, TRUE, FALSE, st)
sendRestart(st) == WriteTWCR(TRUE, FALSE, TRUE, FALSE, st)
sendStopAndStart(st) == WriteTWCR(TRUE, FALSE, TRUE, TRUE, st)
getNextByteWithACK(st) == WriteTWCR(TRUE, TRUE, FALSE, FALSE, st)
getNextByteWithNACK(st) == WriteTWCR(TRUE, FALSE, FALSE, FALSE, st)

\* The statuses the peripheral can report for the operation in progress
HwEvents ==
    CASE hwOp \in {"start", "stopstart"} -> {TW_START}
      [] hwOp = "restart" -> {TW_REP_START}
      [] hwOp = "sla" /\ TWDR % 2 = 0 ->
            {TW_MT_SLA_ACK, TW_MT_SLA_NACK, TW_MT_ARB_LOST, TW_BUS_ERROR}
      [] hwOp = "sla" /\ TWDR % 2 = 1 ->
            {TW_MR_SLA_ACK, TW_MR_SLA_NACK, TW_MT_ARB_LOST, TW_BUS_ERROR}
      [] hwOp = "mtdata" ->
            {TW_MT_DATA_ACK, TW_MT_DATA_NACK, TW_MT_ARB_LOST, TW_BUS_ERROR}
      [] hwOp = "mrdata" /\ TWEA -> {TW_MR_DATA_ACK, TW_BUS_ERROR}
      [] hwOp = "mrdata" /\ ~TWEA ->
            {TW_MR_DATA_NACK, TW_MT_ARB_LOST, TW_BUS_ERROR}
      [] OTHER -> {}

\* The TWI interrupt fires with status st, which the handler reads as
\* TW_STATUS.  The model follows the engine up to the state in which the
\* occupancy counter has wrapped below zero, and no further.
Interrupt(st) ==
    /\ TWIE
    /\ st \in HwEvents
    /\ mNbrMsgs <= kMaxNbrMsgs
    /\ TW_STATUS' = st

\* The stop condition has been put on the bus: the peripheral clears TWSTO
HwStopDone ==
    /\ hwOp = "stop"
    /\ TWSTO
    /\ TWSTO' = FALSE
    /\ hwOp' = "none"
    /\ UNCHANGED <<bufVars, gI2cBusy, gRetries, TWIE, TWEA, TWDR, TW_STATUS,
                   slavePos, memVars, callVars, histVars, slaNackSpecial,
                   slvVars,
                   serVars, auxVars>>

SLA_W(address) == (address * 2) % U8
\* the address byte of a read with the read bit left out
SLA_RNoBit(address) == (address * 2) % U8

SLA_R(address) == ((address * 2) % U8) + 1

\* ------------------------------------------------- the request functions
\* The arguments each writeAsync/readAsync variant hands to push()
PushArgs(c) ==
    [address |-> c.address,
     txMode |-> CASE c.api \in {"write1", "write4"} -> kI2cWrite
                  [] c.api = "read1" -> kI2cRead
                  [] OTHER -> kI2cWriteRestartRead,
     txNull |-> c.api = "read1",
     txByte |-> CASE c.api = "write4" ->
                        [i \in 1..(c.n + 1) |->
                           IF i = 1 THEN c.reg ELSE (c.data + i - 2) % U8]
                  [] OTHER -> <<c.reg>>,
     txLen |-> CASE c.api = "write4" -> (c.n + 1) % U8
                 [] c.api = "read1" -> 0
                 [] OTHER -> 1,
     rxBuf |-> IF c.api \in {"read1", "read2"} THEN c.dest ELSE NULL,
     rxLen |-> IF c.api \in {"read1", "read2"} THEN c.n ELSE 0,
     rxCnt |-> IF c.api \in {"read1", "read2"} THEN c.cnt ELSE NULL,
     status |-> c.status]

\* a status cell holds a final result
IsTerminal(v) == v \notin {Unset, kI2cNotStarted, kI2cInProgress}


\* The requests the caller makes: a one-byte write, a register+buffer
\* write of n bytes, a read of n bytes, a register-addressed read of n bytes;
\* a null status pointer is tried on the one-byte write, a zero length on
\* the plain read
Requests ==
    { r \in [api : Apis, n : WriteLens \cup ReadLens, statusNull : BOOLEAN] :
        /\ r.n \in (CASE r.api = "write1" -> {0}
                      [] r.api = "write4" -> WriteLens
                      [] r.api = "read1" -> {0, MaxRxLen}
                      [] OTHER -> ReadLens \ {0})
        /\ r.statusNull => r.api = "write1" }

\* The caller enters writeAsync/readAsync, directly or through
\* writeSync/readSync (which pass the addresses of their own locals), and
\* tests isFull() for the first time
Call ==
    /\ pc = "idle"
    /\ nCalls < MaxTx
    /\ \E r \in Requests, sync \in BOOLEAN, address \in Addresses,
          reg \in RegAddrs, data \in DataBytes :
          LET t == nCalls + 1
              rd == r.api \in {"read1", "read2"}
          IN  /\ ~(sync /\ r.statusNull)
              /\ call' = [api |-> r.api, sync |-> sync, address |-> address,
                          reg |-> reg, data |-> data, n |-> r.n,
                          dest |-> IF rd THEN t ELSE NULL,
                          cnt |-> IF rd THEN t ELSE NULL,
                          status |-> IF r.statusNull THEN NULL ELSE t]
              /\ nCalls' = t
    /\ pc' = IF isFull THEN "spin" ELSE "push"
    /\ retVal' = 0
    \* the caller is done with the cells of the requests that have ended
    /\ statusCell' = [t \in 0..MaxTx |->
                        IF IsTerminal(statusCell[t]) THEN Retired
                        ELSE statusCell[t]]
    /\ rxCntCell' = [t \in 0..MaxTx |->
                       IF IsTerminal(statusCell[t]) THEN Unset
                       ELSE rxCntCell[t]]
    /\ rxMem' = [t \in 0..MaxTx |->
                    IF IsTerminal(statusCell[t])
                    THEN [i \in 0..(MaxRxLen - 1) |-> Unset]
                    ELSE rxMem[t]]
    /\ IF IsTerminal(statusCell[wireTicket])
       THEN /\ wire' = <<>>
            /\ wireReq' = NoReq
            /\ wireClean' = FALSE
            /\ wireLost' = FALSE
       ELSE UNCHANGED <<wire, wireReq, wireClean, wireLost>>
    /\ UNCHANGED <<bufVars, twiVars, nullWrite, wireTicket, nackCount,
                   nackTicket, faults, rxOob, ended, slaNackSpecial, slvVars,
                   serVars, auxVars>>

\* while ( gI2cBuffer.isFull() ) _delay_us( 5 );
FullSpin ==
    /\ pc = "spin"
    /\ ~isFull
    /\ pc' = "push"
    /\ UNCHANGED <<bufVars, twiVars, memVars, call, nCalls, retVal,
                   histVars, slaNackSpecial, slvVars,
                   serVars, auxVars>>

\* the request function with startI2c() called whatever push() returned
DoPushStartAnyway ==
    /\ pc = "push"
    /\ push(PushArgs(call))
    /\ IF PushErr(PushArgs(call)) # kI2cNoError
       THEN /\ pc' = "idle"
            /\ retVal' = PushErr(PushArgs(call))
            /\ call' = NoCall
            /\ IF ~gI2cBusy /\ ~TWIE /\ ~TWSTO
               THEN /\ gI2cBusy' = TRUE
                    /\ gRetries' = 0
                    /\ WriteTWCR(TRUE, FALSE, TRUE, FALSE, -1)
                    /\ UNCHANGED <<TWDR, TW_STATUS, slavePos>>
               ELSE UNCHANGED twiVars
       ELSE /\ pc' = "chk1"
            /\ UNCHANGED <<retVal, call, twiVars>>
    /\ UNCHANGED <<nCalls, histVars, slaNackSpecial, slvVars,
                   serVars, auxVars>>

\* err = gI2cBuffer.push( ... ); a rejected request returns err at once
DoPush ==
    /\ pc = "push"
    /\ push(PushArgs(call))
    /\ IF PushErr(PushArgs(call)) # kI2cNoError
       THEN /\ pc' = "idle"
            /\ retVal' = PushErr(PushArgs(call))
            /\ call' = NoCall
       ELSE /\ pc' = "chk1"
            /\ UNCHANGED <<retVal, call>>
    /\ UNCHANGED <<twiVars, nCalls, histVars, slaNackSpecial, slvVars,
                   serVars, auxVars>>

\* where the caller goes once startI2c() has returned
AfterStart == IF call.sync THEN "wait" ELSE "idle"
AfterStartCall == IF call.sync THEN call ELSE NoCall

\* startI2c(): if ( !gI2cBusy ...
StartChk1 ==
    /\ pc = "chk1"
    /\ pc' = IF gI2cBusy THEN AfterStart ELSE "chk2"
    /\ call' = IF gI2cBusy THEN AfterStartCall ELSE call
    /\ UNCHANGED <<bufVars, twiVars, memVars, nCalls, retVal,
                   histVars, slaNackSpecial, slvVars,
                   serVars, auxVars>>

\* startI2c(): ... && !(TWCR & (1<<TWIE)) )
StartChk2 ==
    /\ pc = "chk2"
    /\ pc' = IF TWIE THEN AfterStart ELSE "setup"
    /\ call' = IF TWIE THEN AfterStartCall ELSE call
    /\ UNCHANGED <<bufVars, twiVars, memVars, nCalls, retVal,
                   histVars, slaNackSpecial, slvVars,
                   serVars, auxVars>>

\* startI2c(): wait out a pending stop, then claim the bus and issue a start
StartSet ==
    /\ pc = "setup"
    /\ ~TWSTO
    /\ gI2cBusy' = TRUE
    /\ gRetries' = 0
    /\ WriteTWCR(TRUE, FALSE, TRUE, FALSE, -1)
    /\ pc' = AfterStart
    /\ call' = AfterStartCall
    /\ UNCHANGED <<bufVars, TWDR, TW_STATUS, slavePos, memVars, nCalls,
                   retVal, histVars, slaNackSpecial, slvVars,
                   serVars, auxVars>>

\* I2cMaster::busy()
busy == gI2cBusy \/ TWIE

\* waitForCompletion(): leaves the loop on a status that is neither
\* kI2cNotStarted nor kI2cInProgress
waitDone(status) == ~(status = kI2cNotStarted \/ status = kI2cInProgress)

SyncWait ==
    /\ pc = "wait"
    /\ waitDone(statusCell[call.status])
    /\ pc' = "ret"
    /\ UNCHANGED <<bufVars, twiVars, memVars, call, nCalls, retVal,
                   histVars, slaNackSpecial, slvVars,
                   serVars, auxVars>>

\* return -static_cast<int>( status );
SyncRet ==
    /\ pc = "ret"
    /\ retVal' = 0 - statusCell[call.status]
    /\ pc' = "idle"
    /\ call' = NoCall
    /\ UNCHANGED <<bufVars, twiVars, memVars, nCalls,
                   histVars, slaNackSpecial, slvVars,
                   serVars, auxVars>>

\* ------------------------------------------------------- ISR( TWI_vect )
\* *(gI2cBuffer.getCurrentStatus()) = v
WriteStatus(v) ==
    IF getCurrentStatus = NULL
    THEN /\ nullWrite' = TRUE
         /\ UNCHANGED <<statusCell, ended>>
    ELSE /\ statusCell' = [statusCell EXCEPT ![getCurrentStatus] = v]
         /\ ended' = IF v = kI2cInProgress THEN ended
                     ELSE ended \cup {getCurrentStatus}
         /\ UNCHANGED nullWrite

\* n = getCurrentRxBufferCtr(); *( getCurrentRxBufferPtr() + *n ) = b; ++(*n)
StoreByte(b) ==
    LET n == getCurrentRxBufferCtr
        buf == getCurrentRxBufferPtr
        idx == rxCntCell[n]
    IN  /\ rxCntCell' = IF n = NULL THEN rxCntCell
                        ELSE [rxCntCell EXCEPT ![n] = (idx + 1) % U8]
        /\ IF buf # NULL /\ n # NULL /\ idx < getCurrentRxBufferSize
           THEN /\ rxMem' = [rxMem EXCEPT ![buf][idx] = b]
                /\ UNCHANGED rxOob
           ELSE /\ rxOob' = TRUE
                /\ UNCHANGED rxMem

\* the receive counter after StoreByte
StoredCount == (rxCntCell[getCurrentRxBufferCtr] + 1) % U8

\* the payload bytes the transaction in progress has handed to the
\* peripheral, or the bytes it has received once it is reading
BytesMoved ==
    IF getCurrentTxMode = kI2cRead /\ getCurrentRxBufferCtr # NULL
    THEN rxCntCell[getCurrentRxBufferCtr]
    ELSE mCurrentByte

\* the bus trace: dropped once the transaction has met a fault
Logged(entries) == IF wireClean THEN wire \o entries ELSE wire
Fault ==
    /\ wire' = <<>>
    /\ wireClean' = FALSE
    /\ UNCHANGED wireReq

\* case TW_START / TW_REP_START
IsrStart ==
    \E st \in {TW_START, TW_REP_START} :
        /\ Interrupt(st)
        /\ TWDR' = IF getCurrentTxMode % 2 = kI2cWriteMask
                   THEN SLA_W(getCurrentAddress)
                   ELSE SLA_R(getCurrentAddress)
        /\ WriteStatus(kI2cInProgress)
        /\ gRetries' = 0
        /\ gI2cBusy' = TRUE
        /\ sendNextByte(st)
        /\ IF statusCell[getCurrentStatus] = kI2cNotStarted
           THEN \* a transaction starts
                /\ wire' = <<<<"S", st>>, <<"A", TWDR'>>>>
                /\ wireTicket' = getCurrentStatus
                /\ wireReq' = [mode |-> getCurrentTxMode,
                               address |-> getCurrentAddress,
                               txLen |-> mTxBufferSize[mCurrentMsg],
                               payload |-> mTxBuffer[mCurrentMsg],
                               rxLen |-> getCurrentRxBufferSize]
                /\ wireClean' = TRUE
                /\ wireLost' = FALSE
                /\ nackCount' = 0
                /\ nackTicket' = getCurrentStatus
           ELSE IF statusCell[getCurrentStatus] = kI2cInProgress
           THEN \* a start inside a transaction
                /\ wire' = Logged(<<<<"S", st>>, <<"A", TWDR'>>>>)
                /\ UNCHANGED <<wireTicket, wireReq, wireClean, wireLost,
                               nackCount,
                               nackTicket>>
           ELSE \* the slot holds no pending transaction
                /\ wire' = <<>>
                /\ wireTicket' = getCurrentStatus
                /\ wireReq' = NoReq
                /\ wireClean' = FALSE
                /\ wireLost' = FALSE
                /\ nackCount' = 0
                /\ nackTicket' = getCurrentStatus
        /\ slavePos' = 0
        /\ UNCHANGED <<bufVars, rxCntCell, rxMem, callVars, faults, rxOob,
                       slaNackSpecial, slvVars,
                   serVars, auxVars>>

\* the end of a message with a repeated start for the next one after an
\* error as after a success
FinishRestartOnly(st, v, afterError) ==
    /\ WriteStatus(v)
    /\ doneWithCurrentMessage
    /\ IF DoneRetVal
       THEN /\ sendRestart(st)
            /\ UNCHANGED gI2cBusy
       ELSE /\ gI2cBusy' = FALSE
            /\ sendStop(st)

\* Done with this message: report v, advance the queue, then restart for the
\* next message (keep, or stopStart after an error) or stop
Finish(st, v, afterError) ==
    /\ WriteStatus(v)
    /\ doneWithCurrentMessage
    /\ IF DoneRetVal
       THEN /\ IF afterError THEN sendStopAndStart(st) ELSE sendRestart(st)
            /\ UNCHANGED gI2cBusy
       ELSE /\ gI2cBusy' = FALSE
            /\ sendStop(st)

\* case TW_MT_SLA_ACK / TW_MT_DATA_ACK
IsrMtAck ==
    \E st \in {TW_MT_SLA_ACK, TW_MT_DATA_ACK} :
        /\ Interrupt(st)
        /\ IF getCurrentByteVal # -1
           THEN /\ TWDR' = getCurrentByteVal
                /\ mCurrentByte' = getCurrentByteNext
                /\ sendNextByte(st)
                /\ wire' = Logged(<<<<"D", getCurrentByteVal>>>>)
                /\ UNCHANGED <<mTxMode, mNbrMsgs, mCurrentMsg, gI2cBusy,
                               statusCell, ended, nullWrite>>
           ELSE IF getCurrentTxMode = kI2cWriteRestartRead
           THEN /\ mTxMode' = [mTxMode EXCEPT ![mCurrentMsg] = kI2cRead]
                /\ sendRestart(st)
                /\ UNCHANGED <<TWDR, mCurrentByte, mNbrMsgs, mCurrentMsg,
                               gI2cBusy, statusCell, ended, nullWrite, wire>>
           ELSE /\ Finish(st, kI2cCompletedOk, FALSE)
                /\ wire' = Logged(<<<<"P", IF DoneRetVal THEN 1 ELSE 0>>>>)
                /\ UNCHANGED <<TWDR, mTxMode>>
        /\ nackCount' = 0
        /\ UNCHANGED <<slavePos, mTxBuffer, mRxBuffer, mRxCounter, mStatus,
                       mTxBufferSize, mRxBufferSize, mAddress, gRetries,
                       rxCntCell, rxMem, callVars, wireTicket, wireReq,
                       wireClean, wireLost, nackTicket, faults, rxOob,
                       slaNackSpecial, slvVars,
                   serVars, auxVars>>

\* case TW_MR_SLA_ACK
IsrMrSlaAck ==
    /\ Interrupt(TW_MR_SLA_ACK)
    /\ IF getCurrentRxBufferSize > 1
       THEN getNextByteWithACK(TW_MR_SLA_ACK)
       ELSE getNextByteWithNACK(TW_MR_SLA_ACK)
    /\ nackCount' = 0
    /\ slavePos' = 0
    /\ UNCHANGED <<bufVars, gI2cBusy, gRetries, TWDR, memVars, callVars,
                   wire, wireTicket, wireReq, wireClean, wireLost, nackTicket,
                   faults, rxOob, ended, slaNackSpecial, slvVars,
                   serVars, auxVars>>

\* case TW_MR_DATA_ACK; the peripheral has put the received byte in TWDR
IsrMrDataAck ==
    LET b == SlaveByte(slavePos) IN
        /\ Interrupt(TW_MR_DATA_ACK)
        /\ slavePos' = slavePos + 1
        /\ TWDR' = b
        /\ StoreByte(b)
        /\ IF StoredCount < getCurrentRxBufferSize - 1
           THEN getNextByteWithACK(TW_MR_DATA_ACK)
           ELSE getNextByteWithNACK(TW_MR_DATA_ACK)
        /\ wire' = Logged(<<<<"RA", b>>>>)
        /\ UNCHANGED <<bufVars, gI2cBusy, gRetries, statusCell, nullWrite,
                       callVars, wireTicket, wireReq, wireClean, wireLost, nackCount,
                       nackTicket, faults, ended, slaNackSpecial, slvVars,
                   serVars, auxVars>>

\* case TW_MR_DATA_NACK
IsrMrDataNack ==
    LET b == SlaveByte(slavePos) IN
        /\ Interrupt(TW_MR_DATA_NACK)
        /\ slavePos' = 0
        /\ TWDR' = b
        /\ StoreByte(b)
        /\ Finish(TW_MR_DATA_NACK, kI2cCompletedOk, FALSE)
        /\ wire' = Logged(<<<<"RN", b>>, <<"P", IF DoneRetVal THEN 1 ELSE 0>>>>)
        /\ UNCHANGED <<mTxBuffer, mRxBuffer, mRxCounter, mStatus,
                       mTxBufferSize, mRxBufferSize, mTxMode, mAddress,
                       gRetries, callVars, wireTicket, wireReq, wireClean, wireLost,
                       nackCount, nackTicket, faults, slaNackSpecial, slvVars,
                   serVars, auxVars>>

\* a lost arbitration treated as an error: the request is ended
IsrArbLostGivesUp ==
    /\ Interrupt(TW_MT_ARB_LOST)
    /\ faults < MaxFaults
    /\ faults' = faults + 1
    /\ Finish(TW_MT_ARB_LOST, (TW_MT_ARB_LOST + kI2cError) % U8, TRUE)
    /\ Fault
    /\ nackCount' = 0
    /\ slavePos' = 0
    /\ UNCHANGED <<mTxBuffer, mRxBuffer, mRxCounter, mStatus, mTxBufferSize,
                   mRxBufferSize, mTxMode, mAddress, gRetries, TWDR,
                   rxCntCell, rxMem, callVars, wireTicket, wireLost,
                   nackTicket, rxOob, slaNackSpecial, slvVars, serVars,
                   auxVars>>

\* case TW_MT_ARB_LOST
IsrArbLost ==
    /\ Interrupt(TW_MT_ARB_LOST)
    /\ faults < MaxFaults
    /\ faults' = faults + 1
    /\ sendRestart(TW_MT_ARB_LOST)
    /\ Fault
    /\ wireLost' = (wireLost \/ (wireReq # NoReq /\ BytesMoved >= 1))
    /\ nackCount' = 0
    /\ slavePos' = 0
    /\ UNCHANGED <<bufVars, gI2cBusy, gRetries, TWDR, memVars, callVars,
                   wireTicket, nackTicket, rxOob, ended, slaNackSpecial, slvVars,
                   serVars, auxVars>>

\* case TW_MT_DATA_NACK / TW_NO_INFO / TW_BUS_ERROR / default
ErrorBranch(st) ==
    /\ Finish(st, (st + kI2cError) % U8, TRUE)
    /\ UNCHANGED <<mTxBuffer, mRxBuffer, mRxCounter, mStatus, mTxBufferSize,
                   mRxBufferSize, mTxMode, mAddress, gRetries, TWDR,
                   rxCntCell, rxMem>>

\* case TW_MT_SLA_NACK / TW_MR_SLA_NACK: the retry code when the build has
\* I2C_MASTER_SLA_NACK_SPECIAL_HANDLING, the error branch otherwise
IsrSlaNack ==
    \E st \in {TW_MT_SLA_NACK, TW_MR_SLA_NACK} :
        /\ Interrupt(st)
        /\ nackCount > 0 \/ faults < MaxFaults
        /\ faults' = IF nackCount = 0 THEN faults + 1 ELSE faults
        /\ IF slaNackSpecial
           THEN IF gRetries < kSlaNackRetries
                THEN /\ gRetries' = (gRetries + 1) % U8
                     /\ sendStart(st)
                     /\ UNCHANGED <<bufVars, gI2cBusy, TWDR, memVars, ended>>
                ELSE /\ gRetries' = 0
                     /\ WriteStatus((st + kI2cError) % U8)
                     /\ gI2cBusy' = FALSE
                     /\ sendStop(st)
                     /\ UNCHANGED <<bufVars, TWDR, rxCntCell, rxMem>>
           ELSE ErrorBranch(st)
        /\ Fault
        /\ nackCount' = IF nackCount <= kSlaNackRetries THEN nackCount + 1
                        ELSE nackCount
        /\ slavePos' = 0
        /\ UNCHANGED <<callVars, wireTicket, wireLost, nackTicket, rxOob,
                       slaNackSpecial, slvVars,
                   serVars, auxVars>>

IsrError ==
    \E st \in {TW_MT_DATA_NACK, TW_BUS_ERROR} :
        /\ Interrupt(st)
        /\ faults < MaxFaults
        /\ faults' = faults + 1
        /\ ErrorBranch(st)
        /\ Fault
        /\ slavePos' = 0
        /\ UNCHANGED <<callVars, wireTicket, wireLost, nackCount,
                       nackTicket, rxOob, slaNackSpecial, slvVars,
                   serVars, auxVars>>

\* ------------------------------------------------------------ I2cSlave.cpp
\* I2C_SLAVE_BUFFER_SIZE (build option, default 32)
kI2cBufferSize == 3
\* number of transactions the remote master makes in one behaviour
MaxSlaveTx == 3

\* I2cSlave::I2cStatusCodes
I2cSlave_kI2cCompletedOk == 0
I2cSlave_kI2cError == 1
I2cSlave_kI2cTxPartial == 2
I2cSlave_kI2cRxOverflow == 4
I2cSlave_kI2cInProgress == 6

\* TWI status codes of the slave modes
TW_SR_SLA_ACK == 96
TW_SR_GCALL_ACK == 112
TW_SR_DATA_ACK == 128
TW_SR_DATA_NACK == 136
TW_SR_GCALL_DATA_ACK == 144
TW_SR_GCALL_DATA_NACK == 152
TW_SR_STOP == 160
TW_ST_SLA_ACK == 168
TW_ST_DATA_ACK == 184
TW_ST_DATA_NACK == 192

\* what the slave sends when it has no more data
kFiller == 255

\* the i-th data byte (from 1) the remote master writes, byte i (from 0) of
\* the response the callback puts in the buffer, the most data bytes the
\* master writes or reads in one transaction, the sizes the callback returns
MasterByte(i) == (16 + i) % U8
RespByte(i) == (192 + i) % U8
MaxMasterBytes == kI2cBufferSize + 1
RespSizes == 0..kI2cBufferSize

\* the slave after I2cSlave::start()
SlaveInit ==
    [gI2cBuffer |-> [i \in 0..(kI2cBufferSize - 1) |-> 0],
     gI2cBufferIndex |-> 0,
     gI2cMsgSize |-> 0,
     gI2cStatus |-> I2cSlave_kI2cCompletedOk,
     gI2cBusy |-> FALSE,
     TWEA |-> TRUE,
     TWDR |-> kFiller,
     TW_STATUS |-> TW_NO_INFO]

\* the bus: hw is the mode of the slave's TWI peripheral ("unaddr": not
\* addressed, "sr": addressed as receiver, "st": addressed as transmitter,
\* the byte in TWDR going out); txn, op, open: the master's transactions so
\* far, the kind of the last one ("write" to the slave's own address,
\* "gcall" a write to the general call address, which the slave answers
\* when started with answerGeneralCall, "read") and whether the master has
\* yet to end it;
\* sent: data bytes the master has written in it; stored: those the handler
\* has put in the buffer; got: the bytes the master has read in it; nacked:
\* the master has refused a byte; cbCount, cbLen, cbBuf: the calls of
\* processI2cMessage in it and the arguments of the last; resp: the value
\* the last call returned
BusInit ==
    [hw |-> "unaddr", txn |-> 0, op |-> "none", open |-> FALSE, sent |-> 0,
     stored |-> 0, got |-> <<>>, nacked |-> FALSE, cbCount |-> 0,
     cbLen |-> 0, cbBuf |-> [i \in 0..(kI2cBufferSize - 1) |-> 0],
     resp |-> 0]

\* the TWCR writes of the slave: what they leave in TWEA
SlvTransmitByte(s) == [s EXCEPT !.TWEA = TRUE]
SlvStandby(s) == [s EXCEPT !.TWEA = TRUE]
SlvGetNextByteWithACK(s) == [s EXCEPT !.TWEA = TRUE]
SlvGetNextByteWithNACK(s) == [s EXCEPT !.TWEA = FALSE]

\* the slave's TWI interrupt fires with status st; a bus error (an illegal
\* start or stop) can come whenever the slave is addressed
SlvInterrupt(st) ==
    CASE st \in {TW_SR_SLA_ACK, TW_SR_GCALL_ACK, TW_ST_SLA_ACK} ->
            /\ sbus.hw = "unaddr"
            /\ slave.TWEA
            /\ ~sbus.open
            /\ sbus.txn < MaxSlaveTx
      [] st \in {TW_SR_DATA_ACK, TW_SR_GCALL_DATA_ACK} ->
            /\ sbus.hw = "sr"
            /\ sbus.op = (IF st = TW_SR_DATA_ACK THEN "write" ELSE "gcall")
            /\ slave.TWEA
            /\ sbus.sent < MaxMasterBytes
      [] st \in {TW_SR_DATA_NACK, TW_SR_GCALL_DATA_NACK} ->
            /\ sbus.hw = "sr"
            /\ sbus.op = (IF st = TW_SR_DATA_NACK THEN "write" ELSE "gcall")
            /\ ~slave.TWEA
            /\ sbus.sent < MaxMasterBytes
      [] st = TW_SR_STOP -> sbus.hw = "sr"
      [] st = TW_BUS_ERROR -> sbus.hw # "unaddr"
      [] st = TW_ST_DATA_ACK ->
            sbus.hw = "st" /\ Len(sbus.got) < MaxMasterBytes - 1
      [] st = TW_ST_DATA_NACK -> sbus.hw = "st"
      [] OTHER -> FALSE

\* the master opens a transaction of kind op
BusOpen(op, hw) ==
    [sbus EXCEPT !.hw = hw, !.txn = @ + 1, !.op = op, !.open = TRUE,
                 !.sent = 0, !.stored = 0, !.got = <<>>, !.nacked = FALSE,
                 !.cbCount = 0]

\* the byte the transmit cases load, and the index after it
SlvTxByte(s) ==
    IF s.gI2cBufferIndex < s.gI2cMsgSize
    THEN s.gI2cBuffer[s.gI2cBufferIndex]
    ELSE kFiller
SlvTxIndexAlways(s) == (s.gI2cBufferIndex + 1) % U8
SlvTxIndex(s) ==
    IF s.gI2cBufferIndex < s.gI2cMsgSize
    THEN (s.gI2cBufferIndex + 1) % U8
    ELSE s.gI2cBufferIndex

\* case TW_ST_SLA_ACK
SlvIsrStSlaAck ==
    /\ SlvInterrupt(TW_ST_SLA_ACK)
    /\ LET s == [slave EXCEPT !.TW_STATUS = TW_ST_SLA_ACK,
                              !.gI2cBufferIndex = 0,
                              !.gI2cStatus = I2cSlave_kI2cInProgress,
                              !.gI2cBusy = TRUE]
       IN  slave' = SlvTransmitByte([s EXCEPT !.TWDR = SlvTxByte(s),
                                              !.gI2cBufferIndex = SlvTxIndex(s)])
    /\ sbus' = BusOpen("read", "st")
    /\ UNCHANGED <<mstVars, serVars, auxVars>>

\* case TW_ST_DATA_ACK: the master has taken the byte and asks for another
SlvIsrStDataAck ==
    /\ SlvInterrupt(TW_ST_DATA_ACK)
    /\ LET s == [slave EXCEPT !.TW_STATUS = TW_ST_DATA_ACK,
                              !.gI2cStatus = I2cSlave_kI2cInProgress,
                              !.gI2cBusy = TRUE]
       IN  slave' = SlvTransmitByte([s EXCEPT !.TWDR = SlvTxByte(s),
                                              !.gI2cBufferIndex = SlvTxIndex(s)])
    /\ sbus' = [sbus EXCEPT !.got = Append(@, slave.TWDR)]
    /\ UNCHANGED <<mstVars, serVars, auxVars>>

\* the status the slave reports whatever was left to send
SlvNackStatusAlwaysOk(s) == I2cSlave_kI2cCompletedOk

\* case TW_ST_DATA_NACK: the status the slave reports
SlvNackStatus(s) ==
    IF s.gI2cBufferIndex = s.gI2cMsgSize
    THEN I2cSlave_kI2cCompletedOk
    ELSE I2cSlave_kI2cTxPartial

\* case TW_ST_DATA_NACK: the master has taken the byte and wants no more
SlvIsrStDataNack ==
    /\ SlvInterrupt(TW_ST_DATA_NACK)
    /\ slave' = SlvStandby([slave EXCEPT !.TW_STATUS = TW_ST_DATA_NACK,
                                         !.gI2cStatus = SlvNackStatus(slave),
                                         !.gI2cBusy = FALSE])
    /\ sbus' = [sbus EXCEPT !.hw = "unaddr", !.got = Append(@, slave.TWDR),
                            !.nacked = TRUE]
    /\ UNCHANGED <<mstVars, serVars, auxVars>>

\* the receive case for the own address with the buffer index left alone
SlvIsrSrSlaAckKeepIndex ==
    /\ SlvInterrupt(TW_SR_SLA_ACK)
    /\ slave' = SlvStandby([slave EXCEPT
                              !.TW_STATUS = TW_SR_SLA_ACK,
                              !.gI2cBusy = TRUE,
                              !.gI2cStatus = I2cSlave_kI2cInProgress])
    /\ sbus' = BusOpen("write", "sr")
    /\ UNCHANGED <<mstVars, serVars, auxVars>>

\* case TW_SR_GCALL_ACK
SlvIsrSrGcallAck ==
    /\ SlvInterrupt(TW_SR_GCALL_ACK)
    /\ slave' = SlvStandby([slave EXCEPT
                              !.TW_STATUS = TW_SR_GCALL_ACK,
                              !.gI2cBufferIndex = 0,
                              !.gI2cBusy = TRUE,
                              !.gI2cStatus = I2cSlave_kI2cInProgress])
    /\ sbus' = BusOpen("gcall", "sr")
    /\ UNCHANGED <<mstVars, serVars, auxVars>>

\* case TW_SR_SLA_ACK
SlvIsrSrSlaAck ==
    /\ SlvInterrupt(TW_SR_SLA_ACK)
    /\ slave' = SlvStandby([slave EXCEPT
                              !.TW_STATUS = TW_SR_SLA_ACK,
                              !.gI2cBufferIndex = 0,
                              !.gI2cBusy = TRUE,
                              !.gI2cStatus = I2cSlave_kI2cInProgress])
    /\ sbus' = BusOpen("write", "sr")
    /\ UNCHANGED <<mstVars, serVars, auxVars>>

\* the receive case acknowledging the next byte whatever the index
SlvIsrSrDataAckAlways ==
    \E st \in {TW_SR_DATA_ACK, TW_SR_GCALL_DATA_ACK} :
        LET b == MasterByte(sbus.sent + 1)
        IN  /\ SlvInterrupt(st)
            /\ slave' = SlvGetNextByteWithACK(
                  [slave EXCEPT !.TW_STATUS = st,
                                !.TWDR = b,
                                !.gI2cBuffer[slave.gI2cBufferIndex] = b,
                                !.gI2cBufferIndex = (@ + 1) % U8])
            /\ sbus' = [sbus EXCEPT !.sent = @ + 1, !.stored = @ + 1]
            /\ UNCHANGED <<mstVars, serVars, auxVars>>

\* case TW_SR_DATA_ACK, TW_SR_GCALL_DATA_ACK: the peripheral has put the
\* byte in TWDR and acknowledged it
SlvIsrSrDataAck ==
    \E st \in {TW_SR_DATA_ACK, TW_SR_GCALL_DATA_ACK} :
        LET b == MasterByte(sbus.sent + 1)
            idx == (slave.gI2cBufferIndex + 1) % U8
            s == [slave EXCEPT !.TW_STATUS = st,
                               !.TWDR = b,
                               !.gI2cBuffer[slave.gI2cBufferIndex] = b,
                               !.gI2cBufferIndex = idx]
        IN  /\ SlvInterrupt(st)
            /\ slave' = IF idx < kI2cBufferSize - 1
                        THEN SlvGetNextByteWithACK(s)
                        ELSE SlvGetNextByteWithNACK(s)
            /\ sbus' = [sbus EXCEPT !.sent = @ + 1, !.stored = @ + 1]
            /\ UNCHANGED <<mstVars, serVars, auxVars>>

\* case TW_SR_STOP: a stop or a repeated start while addressed; the callback
\* is handed the buffer and the index, may put a response of r bytes in the
\* buffer, and returns r
SlvIsrSrStop ==
    /\ SlvInterrupt(TW_SR_STOP)
    /\ \E r \in RespSizes :
          /\ slave' = SlvStandby(
                [slave EXCEPT
                   !.TW_STATUS = TW_SR_STOP,
                   !.gI2cBuffer = [i \in 0..(kI2cBufferSize - 1) |->
                                     IF i < r THEN RespByte(i) ELSE @[i]],
                   !.gI2cMsgSize = r,
                   !.gI2cBusy = FALSE,
                   !.gI2cStatus = IF @ = I2cSlave_kI2cInProgress
                                  THEN I2cSlave_kI2cCompletedOk ELSE @])
          /\ sbus' = [sbus EXCEPT !.hw = "unaddr", !.open = FALSE,
                                  !.cbCount = @ + 1,
                                  !.cbLen = slave.gI2cBufferIndex,
                                  !.cbBuf = slave.gI2cBuffer,
                                  !.resp = r]
    /\ UNCHANGED <<mstVars, serVars, auxVars>>

\* the statuses of the default branch the peripheral raises in this model
SlvErrorEvents == {TW_SR_DATA_NACK, TW_SR_GCALL_DATA_NACK, TW_BUS_ERROR}

\* the default branch retrying: the slave stays as it was, still busy
SlvIsrDefaultRetry ==
    \E st \in SlvErrorEvents :
        /\ SlvInterrupt(st)
        /\ slave' = SlvStandby([slave EXCEPT !.TW_STATUS = st])
        /\ sbus' = [sbus EXCEPT !.hw = "unaddr"]
        /\ UNCHANGED <<mstVars, serVars, auxVars>>

\* case TW_SR_DATA_NACK ... default: the peripheral has refused a byte (and
\* left it in TWDR) or seen a bus error, and leaves the addressed mode
SlvIsrDefault ==
    \E st \in SlvErrorEvents :
        /\ SlvInterrupt(st)
        /\ slave' = SlvStandby(
              [slave EXCEPT !.TW_STATUS = st,
                            !.TWDR = IF st = TW_BUS_ERROR
                                     THEN @ ELSE MasterByte(sbus.sent + 1),
                            !.gI2cBusy = FALSE,
                            !.gI2cStatus = (st + I2cSlave_kI2cError) % U8])
        /\ sbus' = [sbus EXCEPT !.hw = "unaddr",
                                !.sent = IF st = TW_BUS_ERROR THEN @ ELSE @ + 1]
        /\ UNCHANGED <<mstVars, serVars, auxVars>>

\* the master writes on to a slave that has left the addressed mode: the
\* peripheral does not report the byte
MasterByteIgnored ==
    /\ sbus.hw = "unaddr"
    /\ sbus.open
    /\ sbus.op \in {"write", "gcall"}
    /\ sbus.sent < MaxMasterBytes
    /\ sbus' = [sbus EXCEPT !.sent = @ + 1]
    /\ UNCHANGED <<slave, mstVars, serVars, auxVars>>

\* the master ends a transaction in which the slave is no longer addressed:
\* the peripheral does not report the stop
MasterStop ==
    /\ sbus.hw = "unaddr"
    /\ sbus.open
    /\ sbus' = [sbus EXCEPT !.open = FALSE]
    /\ UNCHANGED <<slave, mstVars, serVars, auxVars>>

\* ------------------------------------------- RingBuffer.cpp, USART3.cpp
\* largest size a RingBuffer driven on its own is constructed with
kRingSize == 3
\* USART3_RX_BUFFER_SIZE (build option, default 32)
USART3_RX_BUFFER_SIZE == 2
\* USART3_TX_BUFFER_SIZE (build option, default 64)
USART3_TX_BUFFER_SIZE == 2
\* number of calls of USART3::write() in one behaviour
MaxWrites == 3
\* number of frames the line delivers in one behaviour
MaxRx == 3

\* unsigned short
U16 == 65536

\* a data register, or the transmit shift register, holding no byte
NoChar == -1

\* --------------------------------------------------------- RingBuffer.cpp
\* A RingBuffer object is a record of its members; its operations are
\* operators from the object to the object after the call and to the value
\* returned.  mSize, mLength and mIndex are unsigned short: 16 bits, the
\* width of unsigned int on the AVR, so their sums wrap at U16.

\* RingBuffer::RingBuffer( buffer, size )
RingBuffer(size) ==
    [mBuffer |-> [i \in 0..(size - 1) |-> 0], mSize |-> size,
     mLength |-> 0, mIndex |-> 0]

\* pull(): the element returned
RingBuffer_pullElement(rb) ==
    IF rb.mLength # 0 THEN rb.mBuffer[rb.mIndex] ELSE -1

\* pull(): mIndex++; if ( mIndex >= mSize ) mIndex -= mSize;
RingBuffer_pullIndex(rb) ==
    LET i == (rb.mIndex + 1) % U16
    IN  IF i >= rb.mSize THEN (i - rb.mSize) % U16 ELSE i

\* pull(): the object after the call
RingBuffer_pull(rb) ==
    IF rb.mLength # 0
    THEN [rb EXCEPT !.mIndex = RingBuffer_pullIndex(rb),
                    !.mLength = (rb.mLength - 1) % U16]
    ELSE rb

\* a slot counted from mIndex without the offset
RingBuffer_slotFromZero(rb, index) == index % rb.mSize

\* ( mIndex + index ) % mSize
RingBuffer_slot(rb, index) == ((rb.mIndex + index) % U16) % rb.mSize

\* peek( index ): the element returned; the object is not written
RingBuffer_peek(rb, index) ==
    IF index < rb.mLength THEN rb.mBuffer[RingBuffer_slot(rb, index)] ELSE -1

\* a test for room that a full buffer passes
RingBuffer_hasRoomWhenFull(rb) == rb.mLength <= rb.mSize

\* push(): if ( mLength < mSize )
RingBuffer_hasRoom(rb) == rb.mLength < rb.mSize

\* push( element ): the value returned, 0 (false) or 1 (true)
RingBuffer_pushRet(rb, element) == IF RingBuffer_hasRoom(rb) THEN 0 ELSE 1

\* push( element ): the object after the call
RingBuffer_push(rb, element) ==
    IF RingBuffer_hasRoom(rb)
    THEN [rb EXCEPT !.mBuffer[RingBuffer_slot(rb, rb.mLength)] = element,
                    !.mLength = (rb.mLength + 1) % U16]
    ELSE rb

\* isFull(): ( mSize - mLength ) <= 0, in unsigned arithmetic
RingBuffer_isFull(rb) == ((rb.mSize - rb.mLength) % U16) <= 0

\* isNotFull(): ( mSize - mLength ) > 0
RingBuffer_isNotFull(rb) == ((rb.mSize - rb.mLength) % U16) > 0

RingBuffer_isEmpty(rb) == ~(rb.mLength # 0)

RingBuffer_isNotEmpty(rb) == rb.mLength # 0

\* clear()
RingBuffer_clear(rb) == [rb EXCEPT !.mLength = 0]

\* what peek() shows of the object: the pending elements, oldest first
RingContents(rb) == [i \in 1..rb.mLength |-> RingBuffer_peek(rb, i - 1)]

\* ------------------------------------------- a RingBuffer driven directly
\* the sizes the object is constructed with and the bytes pushed
RingSizes == 1..kRingSize
RingBytes == {17, 34}

Returned(b) == IF b THEN 1 ELSE 0

\* the record of a call: what was called, with what, what it returned
RingCalled(op, arg, ret) ==
    [op |-> op, arg |-> arg, ret |-> ret, tick |-> 1 - ringOp.tick]

RbConstruct ==
    \E size \in RingSizes :
        /\ ring' = RingBuffer(size)
        /\ fifo' = <<>>
        /\ ringOp' = RingCalled("new", size, 0)
        /\ UNCHANGED <<mstVars, slvVars, auxVars, usartVars>>

RbPush ==
    \E element \in RingBytes :
        /\ ring' = RingBuffer_push(ring, element)
        /\ ringOp' = RingCalled("push", element,
                                RingBuffer_pushRet(ring, element))
        /\ fifo' = IF RingBuffer_pushRet(ring, element) = 0
                   THEN Append(fifo, element) ELSE fifo
        /\ UNCHANGED <<mstVars, slvVars, auxVars, usartVars>>

RbPull ==
    /\ ring' = RingBuffer_pull(ring)
    /\ ringOp' = RingCalled("pull", 0, RingBuffer_pullElement(ring))
    /\ fifo' = IF RingBuffer_pullElement(ring) # -1 /\ fifo # <<>>
               THEN Tail(fifo) ELSE fifo
    /\ UNCHANGED <<mstVars, slvVars, auxVars, usartVars>>

RbPeek ==
    \E index \in 0..kRingSize :
        /\ ringOp' = RingCalled("peek", index, RingBuffer_peek(ring, index))
        /\ UNCHANGED <<ring, fifo, mstVars, slvVars, auxVars, usartVars>>

RbTest ==
    /\ \/ ringOp' = RingCalled("isFull", 0, Returned(RingBuffer_isFull(ring)))
       \/ ringOp' = RingCalled("isNotFull", 0,
                               Returned(RingBuffer_isNotFull(ring)))
       \/ ringOp' = RingCalled("isEmpty", 0,
                               Returned(RingBuffer_isEmpty(ring)))
       \/ ringOp' = RingCalled("isNotEmpty", 0,
                               Returned(RingBuffer_isNotEmpty(ring)))
    /\ UNCHANGED <<ring, fifo, mstVars, slvVars, auxVars, usartVars>>

RbClear ==
    /\ ring' = RingBuffer_clear(ring)
    /\ ringOp' = RingCalled("clear", 0, 0)
    /\ fifo' = <<>>
    /\ UNCHANGED <<mstVars, slvVars, auxVars, usartVars>>

\* -------------------------------------------------------------- USART3.cpp
\* the bytes the program writes and the bytes the line delivers
TxChars == {97, 98}
RxChars == {65, 66}

\* UDRE3: the transmit data register is empty
UDRE3 == UDR3tx = NoChar

\* RXC3: the receive data register holds an unread byte
RXC3 == UDR3rx # NoChar

\* USART3::start(): one atomic block; turns on the receiver, the transmitter
\* and the two interrupts
UsartStart ==
    /\ upc = "idle"
    /\ ~RXCIE3
    /\ RXCIE3' = TRUE
    /\ UDRIE3' = TRUE
    /\ UNCHANGED <<rxBuffer, txBuffer, UDR3tx, UDR3rx, txShift, TXC3, UPE3,
                   upc, uchar, nWrites, nRxd, mstVars, slvVars, auxVars, ringVars>>

\* USART3::write( char c ) is called
UsartWrite ==
    \E c \in TxChars :
        /\ upc = "idle"
        /\ RXCIE3
        /\ nWrites < MaxWrites
        /\ nWrites' = nWrites + 1
        /\ uchar' = c
        /\ upc' = "full"
        /\ UNCHANGED <<rxBuffer, txBuffer, UDR3tx, UDR3rx, txShift, TXC3,
                       UPE3, RXCIE3, UDRIE3, nRxd, mstVars, slvVars, auxVars,
                       ringVars>>

\* write(): while ( txBuffer.isFull() ) ;
UsartWriteSpin ==
    /\ upc = "full"
    /\ ~RingBuffer_isFull(txBuffer)
    /\ upc' = "push"
    /\ UNCHANGED <<rxBuffer, txBuffer, UDR3tx, UDR3rx, txShift, TXC3, UPE3,
                   RXCIE3, UDRIE3, uchar, nWrites, nRxd, mstVars, slvVars, auxVars,
                   ringVars>>

\* write(): txBuffer.push( c )
UsartWritePush ==
    /\ upc = "push"
    /\ txBuffer' = RingBuffer_push(txBuffer, uchar)
    /\ txWritten' = Append(txWritten, uchar)
    /\ upc' = "udrie"
    /\ UNCHANGED <<rxBuffer, UDR3tx, UDR3rx, txShift, TXC3, UPE3, RXCIE3,
                   UDRIE3, uchar, nWrites, nRxd, mstVars, slvVars, dbgVars,
                   txLine, ringVars>>

\* write() leaving the interrupt enable as it finds it
UsartWriteNoUdrie ==
    /\ upc = "udrie"
    /\ upc' = "txc"
    /\ UNCHANGED <<rxBuffer, txBuffer, UDR3tx, UDR3rx, txShift, TXC3, UPE3,
                   RXCIE3, UDRIE3, uchar, nWrites, nRxd, mstVars, slvVars,
                   auxVars, ringVars>>

\* write(): UCSR3B |= ( 1 << UDRIE3 )
UsartWriteUdrie ==
    /\ upc = "udrie"
    /\ UDRIE3' = TRUE
    /\ upc' = "txc"
    /\ UNCHANGED <<rxBuffer, txBuffer, UDR3tx, UDR3rx, txShift, TXC3, UPE3,
                   RXCIE3, uchar, nWrites, nRxd, mstVars, slvVars, auxVars, ringVars>>

\* write(): UCSR3A |= ( 1 << TXC3 ), which clears the flag; return
UsartWriteTxc ==
    /\ upc = "txc"
    /\ TXC3' = FALSE
    /\ upc' = "idle"
    /\ UNCHANGED <<rxBuffer, txBuffer, UDR3tx, UDR3rx, txShift, UPE3, RXCIE3,
                   UDRIE3, uchar, nWrites, nRxd, mstVars, slvVars, auxVars, ringVars>>

\* USART3::flush() is called
UsartFlush ==
    /\ upc = "idle"
    /\ RXCIE3
    /\ upc' = "notEmpty"
    /\ UNCHANGED <<rxBuffer, txBuffer, UDR3tx, UDR3rx, txShift, TXC3, UPE3,
                   RXCIE3, UDRIE3, uchar, nWrites, nRxd, mstVars, slvVars, auxVars,
                   ringVars>>

\* flush(): while ( txBuffer.isNotEmpty() && ...
UsartFlushNotEmpty ==
    /\ upc = "notEmpty"
    /\ upc' = IF RingBuffer_isNotEmpty(txBuffer) THEN "notTxc" ELSE "clear"
    /\ UNCHANGED <<rxBuffer, txBuffer, UDR3tx, UDR3rx, txShift, TXC3, UPE3,
                   RXCIE3, UDRIE3, uchar, nWrites, nRxd, mstVars, slvVars, auxVars,
                   ringVars>>

\* flush(): ... && !( UCSR3A & (1<<TXC3) ) ) ;
UsartFlushNotTxc ==
    /\ upc = "notTxc"
    /\ upc' = IF ~TXC3 THEN "notEmpty" ELSE "clear"
    /\ UNCHANGED <<rxBuffer, txBuffer, UDR3tx, UDR3rx, txShift, TXC3, UPE3,
                   RXCIE3, UDRIE3, uchar, nWrites, nRxd, mstVars, slvVars, auxVars,
                   ringVars>>

\* flush(): UCSR3A |= ( 1 << TXC3 ); return
UsartFlushClear ==
    /\ upc = "clear"
    /\ TXC3' = FALSE
    /\ upc' = "idle"
    /\ UNCHANGED <<rxBuffer, txBuffer, UDR3tx, UDR3rx, txShift, UPE3, RXCIE3,
                   UDRIE3, uchar, nWrites, nRxd, mstVars, slvVars, auxVars, ringVars>>

\* USART3::read()
UsartRead ==
    /\ upc = "idle"
    /\ rxBuffer' = RingBuffer_pull(rxBuffer)
    /\ UNCHANGED <<txBuffer, UDR3tx, UDR3rx, txShift, TXC3, UPE3, RXCIE3,
                   UDRIE3, upc, uchar, nWrites, nRxd, mstVars, slvVars, auxVars,
                   ringVars>>

\* ISR( USART3_RX_vect )
IsrRx ==
    /\ RXCIE3
    /\ RXC3
    /\ rxBuffer' = IF ~UPE3 THEN RingBuffer_push(rxBuffer, UDR3rx)
                   ELSE rxBuffer
    /\ UDR3rx' = NoChar
    /\ UPE3' = FALSE
    /\ UNCHANGED <<txBuffer, UDR3tx, txShift, TXC3, RXCIE3, UDRIE3, upc,
                   uchar, nWrites, nRxd, mstVars, slvVars, auxVars, ringVars>>

\* ISR( USART3_UDRE_vect ); a byte written to UDR3 goes straight to the
\* shift register when that is idle
IsrUdre ==
    /\ UDRIE3
    /\ UDRE3
    /\ IF RingBuffer_isNotEmpty(txBuffer)
       THEN /\ txBuffer' = RingBuffer_pull(txBuffer)
            /\ IF txShift = NoChar
               THEN /\ txShift' = RingBuffer_pullElement(txBuffer)
                    /\ UNCHANGED UDR3tx
               ELSE /\ UDR3tx' = RingBuffer_pullElement(txBuffer)
                    /\ UNCHANGED txShift
            /\ UNCHANGED UDRIE3
       ELSE /\ UDRIE3' = FALSE
            /\ UNCHANGED <<txBuffer, UDR3tx, txShift>>
    /\ UNCHANGED <<rxBuffer, UDR3rx, TXC3, UPE3, RXCIE3, upc, uchar, nWrites,
                   nRxd, mstVars, slvVars, auxVars, ringVars>>

\* the transmitter has shifted a frame out: it takes the next byte from
\* UDR3, or raises TXC3 when UDR3 is empty
HwTxFrame ==
    /\ txShift # NoChar
    /\ IF UDR3tx # NoChar
       THEN /\ txShift' = UDR3tx
            /\ UDR3tx' = NoChar
            /\ UNCHANGED TXC3
       ELSE /\ txShift' = NoChar
            /\ TXC3' = TRUE
            /\ UNCHANGED UDR3tx
    /\ txLine' = Append(txLine, txShift)
    /\ UNCHANGED <<rxBuffer, txBuffer, UDR3rx, UPE3, RXCIE3, UDRIE3, upc,
                   uchar, nWrites, nRxd, mstVars, slvVars, dbgVars,
                   txWritten, ringVars>>

\* the receiver has taken a frame from the line, with or without a parity
\* error
HwRxFrame ==
    \E c \in RxChars, parityError \in BOOLEAN :
        /\ RXCIE3
        /\ ~RXC3
        /\ nRxd < MaxRx
        /\ nRxd' = nRxd + 1
        /\ UDR3rx' = c
        /\ UPE3' = parityError
        /\ UNCHANGED <<rxBuffer, txBuffer, UDR3tx, txShift, TXC3, RXCIE3,
                       UDRIE3, upc, uchar, nWrites, mstVars, slvVars, auxVars,
                       ringVars>>

\* ------------------------------------- I2cMaster.cpp, the debug diary
\* DEBUG_I2cMasterDiaryBufferSize (build option, default 32, at most 255)
DEBUG_I2cMasterDiaryBufferSize == 2

\* the markers the handler passes to DebugDiaryEntry
kSendNextByte == 1
kSentAddressSendNextByte == 8

\* what the handler passes to DebugDiaryEntry: a byte it sends, one of its
\* markers, the hardware status
DiaryContents == DataBytes
DiaryControls == {kSendNextByte, kSentAddressSendNextByte}
DiaryStatuses == {TW_START}

DiarySlots == 0..(DEBUG_I2cMasterDiaryBufferSize - 1)

\* the diary after clearDebugI2cDiary()
DiaryInit ==
    [debugContent |-> [i \in DiarySlots |-> 0],
     debugControl |-> [i \in DiarySlots |-> 0],
     debugStatus |-> [i \in DiarySlots |-> 0],
     debugPtr |-> 0,
     outside |-> FALSE]

\* DebugDiaryEntry with the index in range
DiaryStore(d, content, control, status) ==
    [d EXCEPT !.debugContent[d.debugPtr] = content,
              !.debugControl[d.debugPtr] = control,
              !.debugStatus[d.debugPtr] = status,
              !.debugPtr = (@ + 1) % U8]

\* DebugDiaryEntry with the index beyond the arrays: the three stores land
\* outside the array they name. What they hit depends on how the build has
\* laid out memory: other objects altogether, or, with the arrays adjacent
\* in the order of their declaration, slots of the arrays that follow
\* (the index is read once, so the final ++debugPtr overwrites whatever a
\* store may have put in debugPtr)
DiaryOutside(d, content, control, status) ==
    LET n == DEBUG_I2cMasterDiaryBufferSize
        at == d.debugPtr
        elsewhere == [d EXCEPT !.debugPtr = (@ + 1) % U8, !.outside = TRUE]
        adjacent ==
            [elsewhere EXCEPT
               !.debugControl = [i \in DiarySlots |->
                                   IF n + i = at THEN content ELSE @[i]],
               !.debugStatus = [i \in DiarySlots |->
                                  IF n + i = at THEN control
                                  ELSE IF n + n + i = at THEN content
                                  ELSE @[i]]]
    IN  {elsewhere, adjacent}

\* DebugDiaryEntry( content, control, status ): the diaries it can leave
DiaryNext(d, content, control, status) ==
    IF d.debugPtr < DEBUG_I2cMasterDiaryBufferSize
    THEN {DiaryStore(d, content, control, status)}
    ELSE DiaryOutside(d, content, control, status)

\* the handler records a state transition
DebugDiaryEntry ==
    \E content \in DiaryContents, control \in DiaryControls,
       status \in DiaryStatuses :
        /\ diary' \in DiaryNext(diary, content, control, status)
        /\ UNCHANGED <<mstVars, slvVars, serVars, report, txHist>>

\* I2cMaster::clearDebugI2cDiary()
clearDebugI2cDiary ==
    /\ diary' = [DiaryInit EXCEPT !.outside = diary.outside]
    /\ UNCHANGED <<mstVars, slvVars, serVars, report, txHist>>

\* --------------------------- I2cMaster.cpp, the value of an Error status
\* a | b on bytes
RECURSIVE BitOr(_, _)
BitOr(a, b) ==
    IF a = 0 THEN b
    ELSE IF b = 0 THEN a
    ELSE (IF a % 2 = 1 \/ b % 2 = 1 THEN 1 ELSE 0)
           + 2 * BitOr(a \div 2, b \div 2)

\* kI2cError as it was before the enumeration was renumbered
ErrorStatusOld(st) == BitOr(st, 4)

\* TW_STATUS | kI2cError
ErrorStatus(st) == BitOr(st, kI2cError)

\* the values a hardware status byte can take
HwStatuses == 0..(U8 - 1)

\* the error branch of the handler runs with hardware status st and leaves
\* its value in the status cell of a synchronous call, which is in
\* waitForCompletion: done tells whether that loop exits, ret is what the
\* call then returns (-static_cast<int>( status ))
ReportError ==
    \E st \in HwStatuses :
        LET status == ErrorStatus(st)
        IN  /\ report' = [reported |-> TRUE,
                          TW_STATUS |-> st,
                          status |-> status,
                          done |-> waitDone(status),
                          ret |-> IF waitDone(status) THEN 0 - status ELSE 0]
            /\ UNCHANGED <<mstVars, slvVars, serVars, diary, txHist>>

\* ------------------------------------------------------------ the system
Init ==
    /\ mTxBuffer = [s \in Slots |-> [i \in 1..kMaxMsgLen |-> 0]]
    /\ mRxBuffer = [s \in Slots |-> NULL]
    /\ mRxCounter = [s \in Slots |-> NULL]
    /\ mStatus = [s \in Slots |-> NULL]
    /\ mTxBufferSize = [s \in Slots |-> 0]
    /\ mRxBufferSize = [s \in Slots |-> 0]
    /\ mTxMode = [s \in Slots |-> 0]
    /\ mAddress = [s \in Slots |-> 0]
    /\ mCurrentByte = 0
    /\ mNbrMsgs = 0
    /\ mCurrentMsg = 0
    /\ gI2cBusy = FALSE
    /\ gRetries = 0
    /\ TWIE = FALSE
    /\ TWSTO = FALSE
    /\ TWEA = FALSE
    /\ TWDR = 255
    /\ TW_STATUS = TW_NO_INFO
    /\ hwOp = "none"
    /\ slavePos = 0
    /\ slaNackSpecial \in BOOLEAN
    /\ statusCell = [t \in 0..MaxTx |-> Unset]
    /\ rxCntCell = [t \in 0..MaxTx |-> Unset]
    /\ rxMem = [t \in 0..MaxTx |-> [i \in 0..(MaxRxLen - 1) |-> Unset]]
    /\ nullWrite = FALSE
    /\ pc = "idle"
    /\ call = NoCall
    /\ nCalls = 0
    /\ retVal = 0
    /\ wire = <<>>
    /\ wireTicket = 0
    /\ wireReq = NoReq
    /\ wireClean = FALSE
    /\ wireLost = FALSE
    /\ nackCount = 0
    /\ nackTicket = 0
    /\ faults = 0
    /\ rxOob = FALSE
    /\ ended = {}
    /\ slave = SlaveInit
    /\ sbus = BusInit
    /\ ring = RingBuffer(kRingSize)
    /\ fifo = <<>>
    /\ ringOp = [op |-> "new", arg |-> kRingSize, ret |-> 0, tick |-> 0]
    /\ rxBuffer = RingBuffer(USART3_RX_BUFFER_SIZE)
    /\ txBuffer = RingBuffer(USART3_TX_BUFFER_SIZE)
    /\ UDR3tx = NoChar
    /\ UDR3rx = NoChar
    /\ txShift = NoChar
    /\ TXC3 = FALSE
    /\ UPE3 = FALSE
    /\ RXCIE3 = FALSE
    /\ UDRIE3 = FALSE
    /\ upc = "idle"
    /\ uchar = 0
    /\ nWrites = 0
    /\ nRxd = 0
    /\ diary = DiaryInit
    /\ report = [reported |-> FALSE, TW_STATUS |-> TW_NO_INFO,
                 status |-> kI2cNotStarted, done |-> FALSE, ret |-> 0]
    /\ txWritten = <<>>
    /\ txLine = <<>>

Next ==
    \/ Call
    \/ FullSpin
    \/ DoPush
    \/ StartChk1
    \/ StartChk2
    \/ StartSet
    \/ SyncWait
    \/ SyncRet
    \/ HwStopDone
    \/ IsrStart
    \/ IsrMtAck
    \/ IsrMrSlaAck
    \/ IsrMrDataAck
    \/ IsrMrDataNack
    \/ IsrArbLost
    \/ IsrSlaNack
    \/ IsrError

Spec == Init /\ [][Next]_vars

\* ------------------------------------------------------------- fairness
\* The peripheral reports every operation it has been given, and the caller
\* runs on when it can; the caller need not make another request.
Hardware ==
    \/ HwStopDone
    \/ IsrStart
    \/ IsrMtAck
    \/ IsrMrSlaAck
    \/ IsrMrDataAck
    \/ IsrMrDataNack
    \/ IsrArbLost
    \/ IsrSlaNack
    \/ IsrError

CallerFair ==
    \/ DoPush
    \/ StartChk1
    \/ StartChk2
    \/ StartSet
    \/ SyncWait
    \/ SyncRet

\* The system with MaxTxFair requests, which never fill the queue
CallFair == nCalls < MaxTxFair /\ Call

NextFair ==
    \/ CallFair
    \/ CallerFair
    \/ Hardware

SpecFair == Init /\ [][NextFair]_vars /\ WF_vars(Hardware) /\ WF_vars(CallerFair)

\* ------------------------------------------- the queue class on its own
\* The arguments push() is called with when BufferI2cTx is driven directly:
\* what the request functions pass for a write, a read and a register read
\* with the cells of caller frame t ...
BufBase(t) ==
    { [address |-> 32, txMode |-> kI2cWrite, txNull |-> FALSE,
       txByte |-> [i \in 1..kMaxMsgLen |-> 160 + i], txLen |-> n,
       rxBuf |-> NULL, rxLen |-> 0, rxCnt |-> NULL, status |-> t] :
         n \in {1, kMaxMsgLen} }
    \cup
    { [address |-> 32, txMode |-> m, txNull |-> m = kI2cRead,
       txByte |-> [i \in 1..kMaxMsgLen |-> 160 + i],
       txLen |-> IF m = kI2cRead THEN 0 ELSE 1,
       rxBuf |-> t, rxLen |-> MaxRxLen, rxCnt |-> t, status |-> t] :
         m \in {kI2cRead, kI2cWriteRestartRead} }

\* ... and the same with one argument spoiled: no data, a zero or an
\* excessive length, an absent receive buffer, counter or status cell, and
\* with two of them spoiled together
BufArgs(t) ==
    UNION { {a,
             [a EXCEPT !.txNull = TRUE],
             [a EXCEPT !.txLen = 0],
             [a EXCEPT !.txLen = kMaxMsgLen + 1],
             [a EXCEPT !.txLen = kMaxMsgLen + 1, !.status = NULL],
             [a EXCEPT !.txLen = 0, !.status = NULL],
             [a EXCEPT !.txLen = 0, !.rxLen = 0],
             [a EXCEPT !.rxLen = 0, !.status = NULL],
             [a EXCEPT !.rxBuf = NULL],
             [a EXCEPT !.rxLen = 0],
             [a EXCEPT !.rxCnt = NULL],
             [a EXCEPT !.status = NULL]} :
            a \in BufBase(t) }

\* push() called with arguments a; the length and status cell it was given
\* and its result are kept.  A frame whose request was accepted is not used
\* again.
BufPush ==
    /\ nCalls < MaxTx
    /\ \E a \in BufArgs(nCalls + 1) :
          /\ push(a)
          /\ call' = [NoCall EXCEPT !.api = "push", !.n = a.txLen,
                                    !.status = a.status]
          /\ retVal' = PushErr(a)
          /\ nCalls' = IF PushErr(a) = kI2cNoError THEN nCalls + 1
                       ELSE nCalls
    /\ UNCHANGED <<twiVars, pc, histVars, slaNackSpecial, slvVars,
                   serVars, auxVars>>

\* doneWithCurrentMessage() called for the current message
BufDone ==
    /\ mNbrMsgs > 0
    /\ doneWithCurrentMessage
    /\ call' = [NoCall EXCEPT !.api = "done"]
    /\ retVal' = IF DoneRetVal THEN 1 ELSE 0
    /\ UNCHANGED <<mTxBuffer, mRxBuffer, mRxCounter, mStatus, mTxBufferSize,
                   mRxBufferSize, mTxMode, mAddress, twiVars, memVars, pc,
                   nCalls, histVars, slaNackSpecial, slvVars,
                   serVars, auxVars>>

\* getCurrentByte() called for the current message
BufGetByte ==
    /\ mNbrMsgs > 0
    /\ mCurrentByte' = getCurrentByteNext
    /\ call' = [NoCall EXCEPT !.api = "byte"]
    /\ retVal' = getCurrentByteVal
    /\ UNCHANGED <<mTxBuffer, mRxBuffer, mRxCounter, mStatus, mTxBufferSize,
                   mRxBufferSize, mTxMode, mAddress, mNbrMsgs, mCurrentMsg,
                   twiVars, memVars, pc, nCalls, histVars, slaNackSpecial, slvVars,
                   serVars, auxVars>>

NextBuffer ==
    \/ BufPush
    \/ BufDone
    \/ BufGetByte

SpecBuffer == Init /\ [][NextBuffer]_vars

\* ------------------------------------------------------ the slave on its bus
NextSlave ==
    \/ SlvIsrStSlaAck
    \/ SlvIsrStDataAck
    \/ SlvIsrStDataNack
    \/ SlvIsrSrGcallAck
    \/ SlvIsrSrSlaAck
    \/ SlvIsrSrDataAck
    \/ SlvIsrSrStop
    \/ SlvIsrDefault
    \/ MasterByteIgnored
    \/ MasterStop

SpecSlave == Init /\ [][NextSlave]_vars

\* ------------------------------------------- a RingBuffer driven directly
NextRing ==
    \/ RbConstruct
    \/ RbPush
    \/ RbPull
    \/ RbPeek
    \/ RbTest
    \/ RbClear

SpecRing == Init /\ [][NextRing]_vars

\* ------------------------------------------------- USART3 and its caller
NextUsart ==
    \/ UsartStart
    \/ UsartWrite
    \/ UsartWriteSpin
    \/ UsartWritePush
    \/ UsartWriteUdrie
    \/ UsartWriteTxc
    \/ UsartFlush
    \/ UsartFlushNotEmpty
    \/ UsartFlushNotTxc
    \/ UsartFlushClear
    \/ UsartRead
    \/ IsrRx
    \/ IsrUdre
    \/ HwTxFrame
    \/ HwRxFrame

SpecUsart == Init /\ [][NextUsart]_vars

\* the transmit path of USART3 alone (the receive path shares no variable
\* with it), with the scheduling it relies on: an enabled interrupt is
\* served, the transmitter shifts out the frame it holds, and a caller
\* inside write() runs on to its end
NextUsartTx ==
    \/ UsartStart
    \/ UsartWrite
    \/ UsartWriteSpin
    \/ UsartWritePush
    \/ UsartWriteUdrie
    \/ UsartWriteTxc
    \/ UsartFlush
    \/ UsartFlushNotEmpty
    \/ UsartFlushNotTxc
    \/ UsartFlushClear
    \/ IsrUdre
    \/ HwTxFrame

UsartFair ==
    /\ WF_vars(IsrUdre)
    /\ WF_vars(HwTxFrame)
    /\ WF_vars(UsartWriteUdrie)
    /\ WF_vars(UsartWriteTxc)

SpecUsartTx == Init /\ [][NextUsartTx]_vars /\ UsartFair

\* ------------------------------------------------- the diary on its own
NextDiary ==
    \/ DebugDiaryEntry
    \/ clearDebugI2cDiary

SpecDiary == Init /\ [][NextDiary]_vars

\* ----------------------------------------- the error branch on its own
SpecStatus == Init /\ [][ReportError]_vars

\* ------------------------------------------------------------ properties
\* the request with ticket t has been accepted by push()
Accepted(t) == statusCell[t] # Unset

\* C1: requests end in the order in which push() accepted them, and none is
\* started before every request accepted earlier has ended: whenever the
\* engine starts or ends the request with ticket b, every accepted request
\* with a smaller ticket has already been given its final status.
C1FifoOrder ==
    [][\A b \in Tickets :
          (\/ b \in ended' \ ended
           \/ statusCell[b] = kI2cNotStarted /\ statusCell'[b] = kI2cInProgress)
          => \A a \in 1..(b - 1) : Accepted(a) => a \in ended]_vars

\* a full queue behind a finished request: request 1 has ended, request 2 is
\* on the bus, and the queue is full again
C1Witness ==
    /\ mNbrMsgs = kMaxNbrMsgs
    /\ 1 \in ended
    /\ statusCell[2] = kI2cInProgress
    /\ statusCell[3] = kI2cNotStarted

\* C2: a status cell only moves NotStarted -> InProgress -> final value, and
\* once it holds a final value the engine never writes it again (the caller
\* may give it up).
C2StatusMonotone ==
    [][\A t \in Tickets :
          statusCell'[t] # statusCell[t] =>
              \/ statusCell[t] = Unset /\ statusCell'[t] = kI2cNotStarted
              \/ statusCell[t] = kI2cNotStarted
                   /\ statusCell'[t] = kI2cInProgress
              \/ statusCell[t] = kI2cInProgress /\ IsTerminal(statusCell'[t])
              \/ IsTerminal(statusCell[t]) /\ statusCell'[t] = Retired]_vars

\* the status cell holds an Error value: a hardware status with kI2cError set
IsError(v) == v \notin {Unset, Retired} /\ v % 2 = kI2cError

\* C3: while the slave has answered every address of a request with NACK, the
\* request is still in progress up to the third retry of the start, and is
\* given an Error status by the NACK that follows the third retry (the first
\* attempt and kSlaNackRetries retries).
C3BoundedRetry ==
    \A t \in Tickets :
        (nackTicket = t /\ nackCount > 0 /\ statusCell[t] # Retired) =>
            /\ nackCount <= kSlaNackRetries
                 => statusCell[t] = kI2cInProgress
            /\ nackCount > kSlaNackRetries => IsError(statusCell[t])

\* the engine gives the request with ticket t a final status in this step
EndsNow(t) ==
    /\ statusCell'[t] # statusCell[t]
    /\ IsTerminal(statusCell'[t])
    /\ statusCell'[t] # Retired

\* the engine puts the request with ticket t on the bus in this step
StartsNow(t) ==
    statusCell[t] # kI2cInProgress /\ statusCell'[t] = kI2cInProgress

\* C4: every step in which the engine writes a final status also reclaims
\* the slot (the occupancy goes down by one and, when a request remains, the
\* current slot moves on to it), and a request that has been given its final
\* status is never put on the bus again.
C4SlotReclaim ==
    [][\A t \in Tickets :
          /\ EndsNow(t) =>
                /\ mNbrMsgs' = mNbrMsgs - 1
                /\ mNbrMsgs' > 0 =>
                      mCurrentMsg' = (mCurrentMsg + 1) % kMaxNbrMsgs
          /\ t \in ended => ~StartsNow(t)]_vars

\* the bus trace of a fault-free write-then-read of the L bytes of payload
\* and K received bytes, after its first start and up to its end
C5Expected(address, payload, L, K) ==
    <<<<"A", SLA_W(address)>>>>
    \o [i \in 1..L |-> <<"D", payload[i]>>]
    \o <<<<"S", TW_REP_START>>, <<"A", SLA_R(address)>>>>
    \o [k \in 1..K |-> IF k < K THEN <<"RA", SlaveByte(k - 1)>>
                       ELSE <<"RN", SlaveByte(k - 1)>>]

\* the bus trace shows the end of the transaction
WireEnded == Len(wire) > 0 /\ wire[Len(wire)][1] = "P"

\* C5: a write-then-read of L >= 1 payload bytes and K >= 1 bytes to receive
\* that meets no fault sends SLA+W, the L payload bytes, a repeated start and
\* SLA+R, acknowledges the first K-1 received bytes and not the K-th, and
\* ends with status CompletedOk, a receive counter of K and the K bytes in
\* order in the receive buffer.
C5WriteThenRead ==
    (wireClean /\ wireReq.mode = kI2cWriteRestartRead) =>
        LET L == wireReq.txLen
            K == wireReq.rxLen
            t == wireTicket
            want == C5Expected(wireReq.address, wireReq.payload, L, K)
            n == IF WireEnded THEN Len(wire) - 2 ELSE Len(wire) - 1
        IN  /\ L >= 1 /\ K >= 1
            /\ wire[1][1] = "S"
            /\ n <= Len(want)
            /\ \A i \in 1..n : wire[i + 1] = want[i]
            /\ WireEnded =>
                  /\ n = Len(want)
                  /\ statusCell[t] = kI2cCompletedOk
                  /\ rxCntCell[t] = K
                  /\ \A i \in 0..(K - 1) : rxMem[t][i] = SlaveByte(i)

\* C6: push() called on a full queue returns kI2cErrTxBufferFull and changes
\* nothing: not the occupancy, the current slot, any slot's contents, nor any
\* cell of the caller; so does every repetition of the call.
C6QueueFullIdempotent ==
    [][(call'.api = "push" /\ mNbrMsgs = kMaxNbrMsgs) =>
          /\ retVal' = kI2cErrTxBufferFull
          /\ UNCHANGED <<bufVars, memVars>>]_vars

\* push() has been refused on a full queue and the status cell it was given
\* has not been touched
C6Witness ==
    /\ call.api = "push"
    /\ mNbrMsgs = kMaxNbrMsgs
    /\ retVal = kI2cErrTxBufferFull
    /\ call.status # NULL
    /\ statusCell[call.status] = Unset

\* C7 as claimed: every push() with a length above kMaxMsgLen returns
\* kI2cErrMsgTooLong and leaves the queue as it was.
C7TooLongAlways ==
    [][(call'.api = "push" /\ call'.n > kMaxMsgLen) =>
          /\ retVal' = kI2cErrMsgTooLong
          /\ UNCHANGED <<bufVars, memVars>>]_vars

\* C7: a push() with a length above kMaxMsgLen never enqueues; it returns
\* kI2cErrMsgTooLong when the queue has a free slot and kI2cErrTxBufferFull
\* when it has none (the test for a full queue comes first).
C7TooLongRejected ==
    [][(call'.api = "push" /\ call'.n > kMaxMsgLen) =>
          /\ retVal' = IF mNbrMsgs >= kMaxNbrMsgs THEN kI2cErrTxBufferFull
                       ELSE kI2cErrMsgTooLong
          /\ UNCHANGED <<bufVars, memVars>>]_vars

\* an over-long request has been refused with a slot free and a request queued
C7Witness ==
    /\ call.api = "push"
    /\ call.n > kMaxMsgLen
    /\ retVal = kI2cErrMsgTooLong
    /\ mNbrMsgs > 0
    /\ mNbrMsgs < kMaxNbrMsgs

\* the slots that hold a request the engine has not yet given a final status
PendingSlots ==
    {s \in Slots : /\ mStatus[s] # NULL
                   /\ statusCell[mStatus[s]] \in {kI2cNotStarted,
                                                  kI2cInProgress}}

\* C8: the occupancy is between 0 and kMaxNbrMsgs, the current slot is a slot
\* index, and the slots holding a pending request are exactly the mNbrMsgs
\* consecutive slots (mod kMaxNbrMsgs) from mCurrentMsg on.
C8Occupancy ==
    /\ mNbrMsgs \in 0..kMaxNbrMsgs
    /\ mCurrentMsg \in 0..(kMaxNbrMsgs - 1)
    /\ PendingSlots = {(mCurrentMsg + i) % kMaxNbrMsgs :
                          i \in 0..(mNbrMsgs - 1)}

\* C10: a writeSync/readSync call returns the submission error code, which
\* is positive, when push() refuses the request; otherwise it returns when
\* its status cell is neither NotStarted nor InProgress, and then returns 0
\* exactly when the request ended CompletedOk and the negated status, which
\* is negative, when it ended in Error.
C10SyncResult ==
    [][(call.sync /\ pc # "idle" /\ pc' = "idle") =>
          IF pc = "push"
          THEN /\ retVal' = PushErr(PushArgs(call))
               /\ retVal' > 0
          ELSE LET v == statusCell[call.status]
               IN  /\ pc = "ret"
                   /\ v \notin {kI2cNotStarted, kI2cInProgress}
                   /\ v = kI2cCompletedOk \/ IsError(v)
                   /\ retVal' = 0 <=> v = kI2cCompletedOk
                   /\ IsError(v) => retVal' = 0 - v /\ retVal' < 0]_vars

\* C9: every request push() has accepted is eventually given a final status
\* by the engine, as long as the peripheral goes on reporting.
C9Terminates ==
    \A t \in Tickets : (statusCell[t] = kI2cNotStarted) ~> (t \in ended)

\* the request with ticket t is accepted and the engine has not yet given it
\* a final status
Pending(t) == statusCell[t] \in {kI2cNotStarted, kI2cInProgress}

\* the slots of the occupied window, from the current slot on
Window == {(mCurrentMsg + i) % kMaxNbrMsgs : i \in 0..(mNbrMsgs - 1)}

\* C11: under every interleaving of the caller's steps with the interrupt
\* handler, each accepted request is put on the bus once (it is started only
\* from NotStarted, never after it has been started or ended), no step
\* rewrites a slot that holds a pending request, and no pending request is
\* lost: it is held by a slot of the occupied window until it has ended.
C11EnqueueSafe ==
    [][/\ \A t \in Tickets : StartsNow(t) => statusCell[t] = kI2cNotStarted
       /\ \A s \in PendingSlots : mStatus'[s] = mStatus[s]
       /\ \A t \in Tickets :
             Pending(t)' => \E s \in Window' : mStatus'[s] = t]_vars

\* the contents of slot s
SlotOf(s) == <<mTxBuffer[s], mTxBufferSize[s], mRxBuffer[s], mRxBufferSize[s],
               mRxCounter[s], mStatus[s], mTxMode[s], mAddress[s]>>

\* C12: a push() that accepts the request copies address, mode and payload
\* into slot (mCurrentMsg + mNbrMsgs) mod kMaxNbrMsgs, records the receive
\* buffer, its size, the counter and the status cell there, sets the status
\* cell to NotStarted and (for a read) the receive counter to 0, adds one to
\* the occupancy, and leaves every other slot, the current slot index, the
\* byte cursor, the receive buffers and every other cell as they were.
C12EnqueueEffect ==
    [][(pc = "push" /\ pc' = "chk1") =>
          LET a == PushArgs(call)
              slot == (mCurrentMsg + mNbrMsgs) % kMaxNbrMsgs
              rd == a.txMode \in {kI2cRead, kI2cWriteRestartRead}
          IN  /\ mAddress'[slot] = a.address
              /\ mTxMode'[slot] = a.txMode
              /\ mTxBufferSize'[slot] = (IF a.txMode = kI2cRead THEN 0
                                         ELSE a.txLen)
              /\ \A i \in 1..mTxBufferSize'[slot] :
                    mTxBuffer'[slot][i] = a.txByte[i]
              /\ mStatus'[slot] = a.status
              /\ statusCell'[a.status] = kI2cNotStarted
              /\ rd => /\ mRxBuffer'[slot] = a.rxBuf
                       /\ mRxBufferSize'[slot] = a.rxLen
                       /\ mRxCounter'[slot] = a.rxCnt
                       /\ rxCntCell'[a.rxCnt] = 0
              /\ mNbrMsgs' = mNbrMsgs + 1
              /\ \A s \in Slots \ {slot} : SlotOf(s)' = SlotOf(s)
              /\ UNCHANGED <<mCurrentMsg, mCurrentByte, rxMem>>
              /\ \A t \in 0..MaxTx :
                    /\ t # a.status => statusCell'[t] = statusCell[t]
                    /\ t # a.rxCnt => rxCntCell'[t] = rxCntCell[t]]_vars

\* a register read has just been enqueued behind a request that is on the
\* bus with part of its payload sent
C12Witness ==
    /\ pc = "chk1"
    /\ call.api = "read2"
    /\ mNbrMsgs = kMaxNbrMsgs
    /\ mCurrentByte > 0
    /\ statusCell[mStatus[mCurrentMsg]] = kI2cInProgress
    /\ statusCell[call.status] = kI2cNotStarted
    /\ rxCntCell[call.cnt] = 0

\* C17: the step that ends a request in Error with no request left pending
\* issues a stop and leaves the engine idle (gI2cBusy false, TWI interrupt
\* off); a request submitted afterwards is the next one put on the bus (the
\* engine never starts a request that has ended), and once the caller has
\* returned from a submission every pending request has the engine running
\* for it.
C17IdleAfterError ==
    [][/\ \A t \in Tickets :
             (EndsNow(t) /\ IsError(statusCell'[t])
                /\ \A u \in Tickets : ~Pending(u)')
             => /\ hwOp' = "stop"
                /\ TWSTO'
                /\ ~gI2cBusy'
                /\ ~TWIE'
       /\ \A t \in Tickets : StartsNow(t) => statusCell[t] = kI2cNotStarted
       /\ (pc' = "idle" /\ \E t \in Tickets : Pending(t)')
             => (gI2cBusy' /\ TWIE')]_vars

\* C18: a writeAsync/readAsync call that returns a non-zero error code has
\* changed nothing: the step in which push() refuses the request leaves the
\* queue, the engine (gI2cBusy, the TWI registers: no start is issued) and
\* every cell of the caller as they were; the steps before it only test
\* isFull().
C18RejectedIsLocal ==
    [][/\ (pc = "push" /\ pc' = "idle")
             => /\ retVal' # kI2cNoError
                /\ retVal' = PushErr(PushArgs(call))
                /\ UNCHANGED <<bufVars, twiVars, memVars>>
       /\ (pc \in {"idle", "spin"} /\ pc' # pc)
             => UNCHANGED <<bufVars, twiVars>>
       /\ (pc = "push" /\ pc' = "chk1")
             => PushErr(PushArgs(call)) = kI2cNoError]_vars

\* the first request, a read of no bytes, has been refused: its cells are
\* untouched, the queue is empty and the engine has never been started
C18Witness ==
    /\ pc = "idle"
    /\ nCalls = 1
    /\ retVal = kI2cErrReadWithoutStorage
    /\ statusCell[1] = Unset
    /\ rxCntCell[1] = Unset
    /\ mNbrMsgs = 0
    /\ ~gI2cBusy
    /\ ~TWIE
    /\ hwOp = "none"

\* C19: a writeAsync/readAsync call entered while the queue is full stays in
\* its wait loop until the queue is no longer full and only then calls
\* push(); push() called from these functions never finds the queue full, so
\* with one calling context they never return kI2cErrTxBufferFull.
C19BlocksWhenFull ==
    [][/\ (pc = "idle" /\ pc' # pc /\ isFull) => pc' = "spin"
       /\ (pc = "spin" /\ pc' # pc) => (~isFull /\ pc' = "push")
       /\ (pc = "push" /\ pc' # pc)
             => /\ ~isFull
                /\ retVal' # kI2cErrTxBufferFull]_vars

\* the arguments name no payload to send, no storage to receive into
NoPayload(a) == a.txNull \/ a.txLen = 0
NoStorage(a) == a.rxBuf = NULL \/ a.rxLen = 0 \/ a.rxCnt = NULL

\* the arguments push() may be called with next
NextArgs == BufArgs(IF nCalls < MaxTx THEN nCalls + 1 ELSE MaxTx)

WriteOver(n) ==
    sbus.op = "write" /\ ~sbus.open /\ sbus.hw = "unaddr" /\ sbus.sent = n

\* the callback was called once in this transaction, with a length of n and
\* the first n bytes the master wrote in the buffer
HandedOver(n) ==
    /\ sbus.cbCount = 1
    /\ sbus.cbLen = n
    /\ \A i \in 0..(n - 1) : sbus.cbBuf[i] = MasterByte(i + 1)

\* C13: after the master has addressed the slave for write, sent exactly
\* kI2cBufferSize data bytes and a stop, processI2cMessage has been called
\* with a length of kI2cBufferSize and those bytes in order in the buffer,
\* and the slave's status is CompletedOk.
C13ReceiveCapacity ==
    WriteOver(kI2cBufferSize) =>
        /\ HandedOver(kI2cBufferSize)
        /\ slave.gI2cStatus = I2cSlave_kI2cCompletedOk

\* C14: after the master has written more data bytes than kI2cBufferSize and
\* ended the transaction, the slave's status is RxOverflow and
\* processI2cMessage has been called with the first kI2cBufferSize bytes.
C14ReceiveOverflow ==
    (\E n \in (kI2cBufferSize + 1)..MaxMasterBytes : WriteOver(n)) =>
        /\ HandedOver(kI2cBufferSize)
        /\ slave.gI2cStatus = I2cSlave_kI2cRxOverflow

\* C15: once the master has refused a byte after reading k bytes from a
\* slave whose callback last returned R, the status is TxPartial when k < R
\* and CompletedOk when k = R, the k bytes were the first k of the buffer,
\* and the slave is in standby (not addressed, TWEA set) with busy() false.
C15TransmitOutcome ==
    (sbus.op = "read" /\ sbus.nacked) =>
        LET k == Len(sbus.got)
            R == sbus.resp
        IN  /\ k < R => slave.gI2cStatus = I2cSlave_kI2cTxPartial
            /\ k = R => slave.gI2cStatus = I2cSlave_kI2cCompletedOk
            /\ k <= R => \A i \in 1..k : sbus.got[i] = slave.gI2cBuffer[i - 1]
            /\ ~slave.gI2cBusy
            /\ slave.TWEA
            /\ sbus.hw = "unaddr"

\* the master has read one byte of a longer response and refused it
C15Witness ==
    /\ sbus.op = "read"
    /\ sbus.nacked
    /\ Len(sbus.got) = 1
    /\ sbus.resp = kI2cBufferSize
    /\ slave.gI2cStatus = I2cSlave_kI2cTxPartial
    /\ sbus.got[1] = RespByte(0)

\* C16: each TW_SR_STOP (a stop or repeated start while addressed for write)
\* calls processI2cMessage once, with the number of data bytes stored since
\* the addressing, and the value it returns is the message size of every
\* transmit phase until the next call: the slave sends the first that many
\* bytes of the buffer and then filler.
C16CallbackHandOff ==
    [][/\ (sbus.hw = "sr" /\ sbus'.hw = "unaddr" /\ ~sbus'.open)
             => /\ sbus'.cbCount = 1
                /\ sbus'.cbLen = sbus.stored
                /\ slave'.gI2cMsgSize = sbus'.resp
       /\ slave'.gI2cMsgSize # slave.gI2cMsgSize
             => sbus'.cbCount = sbus.cbCount + 1
       /\ slave.gI2cMsgSize = sbus.resp
       /\ sbus'.hw = "st"
             => slave'.TWDR = (IF Len(sbus'.got) < sbus.resp
                               THEN slave.gI2cBuffer[Len(sbus'.got)]
                               ELSE kFiller)]_vars

\* after a write of two bytes the callback returned 1; the master is
\* reading and the slave, its one byte sent, is sending filler
C16Witness ==
    /\ sbus.op = "read"
    /\ sbus.hw = "st"
    /\ sbus.resp = 1
    /\ sbus.cbLen = 2
    /\ Len(sbus.got) = 1
    /\ sbus.got[1] = RespByte(0)
    /\ slave.TWDR = kFiller

\* C21: busy() is true in every state in which a request has been started
\* on the bus and has no final status yet, and false in every state in which
\* the queue is empty and the last thing the engine asked of the peripheral
\* was a stop.
C21BusyFlag ==
    /\ (\E t \in Tickets : statusCell[t] = kI2cInProgress) => busy
    /\ (mNbrMsgs = 0 /\ hwOp \in {"stop", "none"}) => ~busy

\* a call has been made on the RingBuffer driven directly
RingCall(op) == ringOp'.tick # ringOp.tick /\ ringOp'.op = op

\* C24: pull() returns the accepted elements in the order they were pushed,
\* each once, and returns -1 and leaves the buffer as it is when nothing is
\* pending; peek(i) returns the i-th pending element and removes nothing,
\* and returns -1 when i is not less than the number of pending elements.
C24Fifo ==
    [][/\ RingCall("pull") =>
            IF fifo = <<>>
            THEN ringOp'.ret = -1 /\ ring' = ring
            ELSE /\ ringOp'.ret = Head(fifo)
                 /\ RingContents(ring') = Tail(fifo)
       /\ RingCall("peek") =>
            /\ ring' = ring
            /\ RingContents(ring') = fifo
            /\ ringOp'.ret = IF ringOp'.arg < Len(fifo)
                             THEN fifo[ringOp'.arg + 1] ELSE -1]_vars

\* a pull has given back the second of three elements with the index wrapped
\* round the end of the storage
C24Witness ==
    /\ ringOp.op = "pull"
    /\ ringOp.ret = 34
    /\ ring.mSize = kRingSize
    /\ ring.mIndex = 0
    /\ fifo = <<17, 34>>

\* C25: push() returns 0 and appends when mLength < mSize, and returns 1 and
\* leaves length, index and stored elements as they are when mLength = mSize;
\* always 0 <= mLength <= mSize and 0 <= mIndex < mSize; isFull() is true
\* exactly when mLength = mSize.
C25PushBounds ==
    /\ [](/\ 0 <= ring.mLength /\ ring.mLength <= ring.mSize
          /\ 0 <= ring.mIndex /\ ring.mIndex < ring.mSize
          /\ RingBuffer_isFull(ring) <=> (ring.mLength = ring.mSize)
          /\ RingBuffer_isNotFull(ring) <=> ~RingBuffer_isFull(ring))
    /\ [][RingCall("push") =>
            IF ring.mLength < ring.mSize
            THEN /\ ringOp'.ret = 0
                 /\ ring'.mLength = ring.mLength + 1
                 /\ ring'.mIndex = ring.mIndex
                 /\ RingContents(ring') =
                        Append(RingContents(ring), ringOp'.arg)
            ELSE /\ ringOp'.ret = 1
                 /\ ring' = ring]_vars

\* a push has been refused by a full buffer whose contents wrap round the end
\* of the storage
C25Witness ==
    /\ ringOp.op = "push"
    /\ ringOp.ret = 1
    /\ ring.mLength = kRingSize
    /\ ring.mSize = kRingSize
    /\ ring.mIndex = kRingSize - 1
    /\ fifo = <<17, 34, 17>>

\* the receive interrupt takes a frame without parity error from UDR3
RxTaken == RXC3 /\ ~UPE3 /\ UDR3rx' = NoChar

\* C22: a byte received while the receive ring buffer is full is stored,
\* taking the place of older data, rather than discarded: after the receive
\* interrupt the byte is the newest element of the buffer.
C22RxOverwrites ==
    [][(RxTaken /\ RingBuffer_isFull(rxBuffer)) =>
            /\ rxBuffer' # rxBuffer
            /\ RingBuffer_peek(rxBuffer', rxBuffer'.mLength - 1) = UDR3rx]_vars

\* flush() returns
FlushReturns == upc = "clear" /\ upc' = "idle"

\* C23: flush() returns only in a state in which the transmit ring buffer is
\* empty and the last byte has left the transmitter: nothing waits in UDR3
\* and nothing is being shifted out.
C23FlushComplete ==
    [][FlushReturns =>
            /\ RingBuffer_isEmpty(txBuffer')
            /\ UDR3tx' = NoChar
            /\ txShift' = NoChar]_vars

\* the TWI interrupt handler runs in this step, for the status st
Isr(st) ==
    /\ TWIE
    /\ pc' = pc
    /\ TW_STATUS' = st
    /\ mstVars' # mstVars

\* C26: when the peripheral reports a lost arbitration the handler asks for
\* a start again and nothing else: no status cell is written, the occupancy
\* and the current slot of the queue stay as they are, the request keeps
\* its place, and no retry counter is counted or consulted.
C26ArbitrationRetry ==
    [][Isr(TW_MT_ARB_LOST) =>
          /\ hwOp' = "start"
          /\ TWIE'
          /\ ~TWSTO'
          /\ UNCHANGED <<bufVars, memVars, gI2cBusy, gRetries>>]_vars

\* arbitration has been lost after the first payload byte of a request with
\* another one queued behind it, and the start is pending again
C26Witness ==
    /\ TW_STATUS = TW_MT_ARB_LOST
    /\ hwOp = "start"
    /\ mNbrMsgs = 2
    /\ mCurrentByte = 1
    /\ statusCell[1] = kI2cInProgress
    /\ statusCell[2] = kI2cNotStarted
    /\ gI2cBusy

\* the statuses that take the handler to its error branch in every build
ErrorStatuses == {TW_MT_DATA_NACK, TW_BUS_ERROR}

\* C27: on a data NACK or a bus error the handler gives the current request
\* the status Error with the hardware status in it, takes the request off
\* the queue, and then either starts the next queued request with the engine
\* still busy, or, when nothing is queued, issues a stop and goes idle.
C27ErrorCompletion ==
    [][\A st \in ErrorStatuses :
          Isr(st) =>
              /\ statusCell[getCurrentStatus] = kI2cInProgress
              /\ statusCell'[getCurrentStatus] = (st + kI2cError) % U8
              /\ mNbrMsgs > 0
              /\ mNbrMsgs' = mNbrMsgs - 1
              /\ IF mNbrMsgs' > 0
                 THEN /\ mCurrentMsg' = (mCurrentMsg + 1) % kMaxNbrMsgs
                      /\ statusCell'[getCurrentStatus'] = kI2cNotStarted
                      /\ hwOp' = "stopstart"
                      /\ gI2cBusy'
                      /\ TWIE'
                 ELSE /\ hwOp' = "stop"
                      /\ TWSTO'
                      /\ ~gI2cBusy'
                      /\ ~TWIE']_vars

\* the handler takes the current request off the queue in this step
Completes == pc' = pc /\ mNbrMsgs' # mNbrMsgs

\* the statuses on which the handler ends a request with CompletedOk
OkStatuses == {TW_MT_SLA_ACK, TW_MT_DATA_ACK, TW_MR_DATA_NACK}

StoresNext ==
    LET n == rxCntCell[getCurrentRxBufferCtr]
    IN  /\ n < getCurrentRxBufferSize
        /\ rxMem'[getCurrentRxBufferPtr][n] = TWDR'
        /\ rxCntCell'[getCurrentRxBufferCtr] = n + 1

\* C29: in a read of K >= 1 bytes the first byte is asked for with ACK
\* exactly when K > 1; every received byte is stored at the index the receive
\* counter holds and the counter is then incremented; the byte after it is
\* asked for with ACK exactly when it is not the K-th.  The receive counter
\* of the request in progress never exceeds K and no byte is ever stored at
\* or beyond the capacity of the receive buffer.
C29ReadPolicy ==
    /\ [](~rxOob)
    /\ []((statusCell[getCurrentStatus] = kI2cInProgress
             /\ getCurrentRxBufferCtr # NULL)
          => rxCntCell[getCurrentRxBufferCtr] <= getCurrentRxBufferSize)
    /\ [][/\ Isr(TW_MR_SLA_ACK) =>
                /\ hwOp' = "mrdata"
                /\ TWEA' <=> (getCurrentRxBufferSize > 1)
          /\ Isr(TW_MR_DATA_ACK) =>
                /\ StoresNext
                /\ hwOp' = "mrdata"
                /\ TWEA' <=> (rxCntCell[getCurrentRxBufferCtr] + 2
                                 < getCurrentRxBufferSize)
          /\ Isr(TW_MR_DATA_NACK) => StoresNext]_vars

\* the address byte for a 7-bit address: the address in bits 7..1 and the
\* direction in bit 0, 0 to write and 1 to read
AddressByte(address, write) ==
    (address * 2 + (IF write THEN 0 ELSE 1)) % U8

\* C30: on every start and repeated start the handler sends the address of
\* the current request, with the write bit when the mode of the request
\* includes Write and with the read bit otherwise, and sets the status of
\* the request to InProgress.  In a write-then-read that meets no fault the
\* first address byte is SLA+W and the one after the internal restart is
\* SLA+R.
C30AddressPhase ==
    /\ [][/\ \A st \in {TW_START, TW_REP_START} :
               Isr(st) =>
                   /\ TWDR' = AddressByte(getCurrentAddress,
                                  getCurrentTxMode \in
                                      {kI2cWrite, kI2cWriteRestartRead})
                   /\ statusCell'[getCurrentStatus] = kI2cInProgress
                   /\ hwOp' = "sla"
                   /\ TWIE'
          /\ (Isr(TW_MT_DATA_ACK) /\ getCurrentByteVal = -1
                 /\ getCurrentTxMode = kI2cWriteRestartRead) =>
                /\ hwOp' = "restart"
                /\ getCurrentTxMode' = kI2cRead
                /\ UNCHANGED <<mCurrentMsg, mNbrMsgs, statusCell>>]_vars
    /\ []((wireClean /\ wireReq.mode = kI2cWriteRestartRead) =>
            \A i \in 1..Len(wire) :
                wire[i][1] = "A" =>
                    wire[i][2] = AddressByte(wireReq.address, i = 2))

\* a write-then-read has sent its register address and, after the internal
\* restart, the address byte with the read bit
C30Witness ==
    /\ wireClean
    /\ wireReq.mode = kI2cWriteRestartRead
    /\ TW_STATUS = TW_REP_START
    /\ hwOp = "sla"
    /\ TWDR = AddressByte(wireReq.address, FALSE)
    /\ Len(wire) = 5
    /\ wire[2] = <<"A", AddressByte(wireReq.address, TRUE)>>
    /\ wire[5] = <<"A", AddressByte(wireReq.address, FALSE)>>
    /\ statusCell[wireTicket] = kI2cInProgress

\* C31: in a read, every byte the slave sends after the R bytes of its
\* response (R the value the callback last returned) is the filler 0xFF, the
\* buffer index never exceeds R while the slave transmits, and when the
\* master refuses a byte after taking more than R the status is CompletedOk.
C31FillerBytes ==
    sbus.op = "read" =>
        LET k == Len(sbus.got)
            R == sbus.resp
        IN  /\ \A i \in 1..k : i > R => sbus.got[i] = kFiller
            /\ (sbus.hw = "st" /\ k >= R) => slave.TWDR = kFiller
            /\ slave.gI2cBufferIndex <= R
            /\ (sbus.nacked /\ k > R)
                  => slave.gI2cStatus = I2cSlave_kI2cCompletedOk

\* the master has read a one-byte response and two bytes more, then refused
C31Witness ==
    /\ sbus.op = "read"
    /\ sbus.nacked
    /\ sbus.resp = 1
    /\ sbus.got = <<RespByte(0), kFiller, kFiller>>
    /\ slave.gI2cBufferIndex = 1
    /\ slave.gI2cStatus = I2cSlave_kI2cCompletedOk

\* the slave's handler runs its default branch in this step
SlvDefaultStep ==
    /\ sbus.hw # "unaddr"
    /\ sbus'.hw = "unaddr"
    /\ slave'.TW_STATUS \in SlvErrorEvents

\* C32: the default branch of the slave's handler (a refused byte, a bus
\* error) leaves the status an Error value that holds the raw hardware
\* status, busy() false and the peripheral not addressed with TWEA set; it
\* repeats nothing (buffer, index and message size are untouched and the
\* callback is not called); whenever the slave is not addressed TWEA is set,
\* and the next addressing starts a transaction as any other does.
C32SlaveErrorRecovery ==
    /\ [](sbus.hw = "unaddr" => slave.TWEA)
    /\ [][/\ SlvDefaultStep
                => /\ slave'.gI2cStatus % 2 = I2cSlave_kI2cError
                   /\ (slave'.gI2cStatus \div 8) * 8 = slave'.TW_STATUS
                   /\ ~slave'.gI2cBusy
                   /\ slave'.TWEA
                   /\ slave'.gI2cBuffer = slave.gI2cBuffer
                   /\ slave'.gI2cBufferIndex = slave.gI2cBufferIndex
                   /\ slave'.gI2cMsgSize = slave.gI2cMsgSize
                   /\ sbus'.cbCount = sbus.cbCount
          /\ sbus'.txn # sbus.txn
                => /\ slave'.gI2cBusy
                   /\ slave'.gI2cStatus = I2cSlave_kI2cInProgress
                   /\ slave'.gI2cBufferIndex
                         = (IF sbus'.op = "read" /\ slave.gI2cMsgSize > 0
                            THEN 1 ELSE 0)
                   /\ sbus'.hw = (IF sbus'.op = "read" THEN "st" ELSE "sr")]_vars

\* a bus error has come while the master was reading the second byte: the
\* slave is in standby with the status 0x00 | kI2cError
C32Witness ==
    /\ sbus.op = "read"
    /\ sbus.hw = "unaddr"
    /\ Len(sbus.got) = 1
    /\ slave.TW_STATUS = TW_BUS_ERROR
    /\ slave.gI2cStatus = I2cSlave_kI2cError
    /\ ~slave.gI2cBusy
    /\ slave.TWEA

\* C33: gI2cBufferIndex never exceeds kI2cBufferSize; every received byte is
\* stored at an index below kI2cBufferSize, in the slot the index named;
\* every addressing for write (own address or general call) resets the index
\* to 0; and once a store leaves one slot or none free, the next byte is
\* answered with NACK.
C33ReceiveBounded ==
    /\ [](slave.gI2cBufferIndex <= kI2cBufferSize)
    /\ [][/\ sbus'.stored # sbus.stored /\ sbus'.txn = sbus.txn
                => /\ slave.gI2cBufferIndex < kI2cBufferSize
                   /\ slave'.gI2cBuffer
                         = [slave.gI2cBuffer EXCEPT
                              ![slave.gI2cBufferIndex] = MasterByte(sbus'.sent)]
                   /\ slave'.gI2cBufferIndex = slave.gI2cBufferIndex + 1
                   /\ slave'.gI2cBufferIndex >= kI2cBufferSize - 1
                         => ~slave'.TWEA
          /\ (sbus'.txn # sbus.txn /\ sbus'.op \in {"write", "gcall"})
                => slave'.gI2cBufferIndex = 0]_vars

\* in a general call, the second transaction, the slave has stored the
\* last byte it takes and will refuse the next
C33Witness ==
    /\ sbus.op = "gcall"
    /\ sbus.txn = 2
    /\ sbus.hw = "sr"
    /\ sbus.stored = kI2cBufferSize - 1
    /\ slave.gI2cBufferIndex = kI2cBufferSize - 1
    /\ slave.gI2cBuffer[0] = MasterByte(1)
    /\ ~slave.TWEA

\* C34: the write index of the diary stays within
\* 0 .. DEBUG_I2cMasterDiaryBufferSize - 1 and no entry is written outside
\* the three trace arrays.
C34DiaryRing ==
    /\ diary.debugPtr \in DiarySlots
    /\ ~diary.outside

\* C35: whenever the handler processes a start event or calls
\* doneWithCurrentMessage the queue holds at least one message; the number
\* of messages never wraps below 0; and no request that has reached a final
\* status is put in progress again.
C35NeverOnEmptyQueue ==
    /\ [](mNbrMsgs <= kMaxNbrMsgs)
    /\ [][/\ (Isr(TW_START) \/ Completes) => mNbrMsgs >= 1
          /\ \A t \in Tickets :
                (statusCell[t] # Unset /\ IsTerminal(statusCell[t]))
                   => statusCell'[t] # kI2cInProgress]_vars

\* C36: in a transaction that was restarted after an arbitration loss which
\* came after at least one payload byte had been sent or received, the byte
\* sent after the re-issued SLA+W is acknowledged is the first byte of the
\* payload, and once the re-issued SLA+R is acknowledged the receive counter
\* is 0, so that the bytes are stored from index 0.
C36RestartResendsAll ==
    [][/\ (wireLost /\ Isr(TW_MT_SLA_ACK))
             => /\ mTxBufferSize[mCurrentMsg] >= 1
                /\ TWDR' = mTxBuffer[mCurrentMsg][1]
                /\ mCurrentByte' = 1
       /\ (wireLost /\ Isr(TW_MR_SLA_ACK))
             => rxCntCell'[getCurrentRxBufferCtr] = 0]_vars

\* C37: no push() writes through a null receive counter or a null status
\* pointer, a push() of a write included; and every occupied slot of the
\* queue holds a status pointer that is not null.
C37NoNullAccess ==
    /\ [](mNbrMsgs <= kMaxNbrMsgs => \A s \in Window : mStatus[s] # NULL)
    /\ [][(pc = "push" /\ pc' # "push") => (nullWrite' => nullWrite)]_vars

\* C38: a register+buffer write of numberBytes data bytes that finds room
\* in the queue either enqueues a message of exactly numberBytes + 1 bytes,
\* the register address followed by the data, when numberBytes + 1 is at
\* most kMaxMsgLen, or returns kI2cErrMsgTooLong and enqueues nothing.
C38LengthArithmetic ==
    [][(pc = "push" /\ pc' # "push" /\ call.api = "write4"
          /\ mNbrMsgs < kMaxNbrMsgs)
        => IF call.n + 1 <= kMaxMsgLen
           THEN LET slot == (mCurrentMsg + mNbrMsgs) % kMaxNbrMsgs
                IN  /\ pc' = "chk1"
                    /\ mNbrMsgs' = mNbrMsgs + 1
                    /\ mTxBufferSize'[slot] = call.n + 1
                    /\ mTxBuffer'[slot][1] = call.reg
                    /\ \A i \in 2..(call.n + 1) :
                          mTxBuffer'[slot][i] = (call.data + i - 2) % U8
           ELSE /\ pc' = "idle"
                /\ retVal' = kI2cErrMsgTooLong
                /\ mNbrMsgs' = mNbrMsgs]_vars

\* C39: for every 8-bit hardware status the value the error branch writes,
\* status | kI2cError, is none of NotStarted, InProgress and CompletedOk: it
\* keeps the other bits of the hardware status, waitForCompletion exits on
\* it, and the synchronous call returns its negative, which is not 0.
C39ErrorIsTerminal ==
    report.reported =>
        /\ report.status \notin {kI2cNotStarted, kI2cInProgress,
                                 kI2cCompletedOk}
        /\ report.status % 2 = kI2cError
        /\ report.status \div 2 = report.TW_STATUS \div 2
        /\ report.done
        /\ report.ret = 0 - report.status
        /\ report.ret < 0

\* a bus error (hardware status 0x00) has been reported: the cell holds
\* 0x01 and the synchronous call returns -1
C39Witness ==
    /\ report.reported
    /\ report.TW_STATUS = TW_BUS_ERROR
    /\ report.status = kI2cError
    /\ report.done
    /\ report.ret = -1

\* what has been written and not yet put on the line, oldest first: the
\* frame in the shift register, the byte in UDR3, the transmit buffer
TxPending ==
    (IF txShift # NoChar THEN <<txShift>> ELSE <<>>)
       \o (IF UDR3tx # NoChar THEN <<UDR3tx>> ELSE <<>>)
       \o RingContents(txBuffer)

\* write( char ) is in progress
Writing == upc \in {"full", "push", "udrie", "txc"}

\* C40: whenever no write() is in progress and the transmit buffer is not
\* empty the data-register-empty interrupt is enabled; the frames put on the
\* line followed by what is still on its way are exactly the bytes written,
\* in order; and every byte written is eventually put on the line.
C40NoLostWakeup ==
    /\ []((~Writing /\ RingBuffer_isNotEmpty(txBuffer)) => UDRIE3)
    /\ [](txLine \o TxPending = txWritten)
    /\ \A n \in 1..MaxWrites :
          (Len(txWritten) >= n) ~> (Len(txLine) >= n)

\* three bytes have been written and sent, in the order written, and the
\* interrupt, finding the buffer empty, has disabled itself
C40Witness ==
    /\ txWritten = <<97, 98, 97>>
    /\ txLine = txWritten
    /\ upc = "idle"
    /\ ~UDRIE3

====
